---- MODULE Spec2Model ----
(***************************************************************************)
(* review-bot: the label-driven orchestration engine.                      *)
(*                                                                         *)
(* The hosting platform holds the shared state (the labels of each PR and  *)
(* the review:: tags found in its issue comments); the process holds the   *)
(* in-flight registry `processing`, the pollOnce invocations in progress   *)
(* and the handler invocations (pipelines) in progress.  Every await of    *)
(* the source that touches shared state is one step.                       *)
(***************************************************************************)
EXTENDS Integers, FiniteSets, Sequences, TLC

\* ------------------------------------------------------------------ bounds
\* pull requests of the one repository, in the order listForRepo returns them
NumPRs == 1
\* pollOnce invocations that may be in progress at once (setInterval does not
\* wait for the previous tick)
MaxOverlap == 2
\* handler invocations that may be outstanding at once
MaxRuns == 2
\* of the removeLabel requests of one setLabel call that are still in flight,
\* the first Window (in the order they were issued) can be answered next
Window == 1
\* handler invocations started in one behaviour
MaxDispatch == 2
\* the same, when every poll finishes before the next one starts
MaxSeqDispatch == 3

\* issue comments handed to countReviewCycles, and characters in a body
MaxComments == 2
MaxBody == 4

\* check runs and commit statuses of the head commit handed to checkCI
MaxCheckRuns == 2
MaxStatuses == 1

\* clock readings and commit dates handed to the CI handler
MaxTime == 4

\* what the two passes hand to mergeResults: line numbers, comments of the
\* architecture and of the detailed pass, thread verdicts of each pass
MaxLine == 4
MaxArch == 1
MaxDetail == 2
MaxThreads == 2
\* changed files handed to detectPlatform
MaxFiles == 3
\* comments handed to postReview
MaxPosted == 2
\* comments, and thread verdicts, one pass of a review run followed in
\* detail returns
MaxPass == 1

PRs == 1..NumPRs
TickIds == 1..MaxOverlap
RunIds == 1..MaxRuns

\* ------------------------------------------------------- program constants
RN == "bot-review-needed"
CN == "bot-changes-needed"
CIP == "bot-ci-pending"
HRN == "human-review-needed"
HI == "bot-human-intervention"

\* labeler.ts BOT_LABELS, in array order
BOT_LABELS == <<RN, CN, CIP, HRN, HI>>

BotLabels == {BOT_LABELS[i] : i \in DOMAIN BOT_LABELS}

\* config.MAX_REVIEW_CYCLES as configured through the environment
MAX_REVIEW_CYCLES == 2

\* config.CI_POLL_TIMEOUT_MS as configured through the environment, in the
\* unit of the clock
CI_POLL_TIMEOUT_MS == 2

\* the review:: ids are counted up to here
MaxTags == MAX_REVIEW_CYCLES + 1
\* the code-fix passes are counted up to here
MaxFixes == MAX_REVIEW_CYCLES + 1

\* HTTP statuses of the label calls
OK == 200
NOT_FOUND == 404
SERVER_ERROR == 500

VARIABLES
  labels,      \* [PRs -> SUBSET BOT_LABELS]: the labels attached on the platform
  reviewTags,  \* [PRs -> Nat]: distinct review::<uuid> ids in the issue comments
  processing,  \* the in-flight registry (poller.ts `processing`)
  ticks,       \* [TickIds -> pollOnce invocation]
  runs,        \* [RunIds -> handler invocation]
  alive,       \* the process has not died of an unhandled rejection
  rejected,    \* PRs for which a handler promise has rejected (history)
  fixes,       \* [PRs -> Nat]: code-fix passes run on the PR so far (history)
  quota,       \* handler invocations the poller may still start
  input,       \* the arguments of a function applied on its own
  output,      \* <<what it returned>> (<<>> before the call)
  job,         \* one pipeline run followed call by call
  history      \* what that run has posted on its PR, in order

vars == <<labels, reviewTags, processing, ticks, runs, alive, rejected, fixes,
          quota, input, output, job, history>>

\* ---------------------------------------------------------------- records
IdleRun ==
  [pc |-> "idle", kind |-> "none", pr |-> 0, target |-> "none", rm |-> {},
   ctx |-> "main", res |-> "none", out |-> "none",
   acts |-> {}, posted |-> 0, fresh |-> FALSE, err |-> 0, found |-> {}]

IdleTick == [pc |-> "idle", phase |-> 0, cur |-> 0, items |-> {}]

IdleJob == [pc |-> "idle"]

Min(S) == CHOOSE x \in S : \A y \in S : x <= y

Outstanding(r) == runs[r].kind \in {"review", "write", "ci"}

RunsOf(p) == {r \in RunIds : Outstanding(r) /\ runs[r].pr = p}

\* ------------------------------------------------------- handler settlement
Settled(run) == run.pc \in {"resolved", "rejected"}

AfterCatchMissing(outcome) == outcome

\* poller.ts:171-173: .catch((err) => logger.error(...)) turns a rejection
\* into a fulfilled promise
AfterCatch(outcome) == IF outcome = "rejected" THEN "resolved" ELSE outcome

DeleteOnFulfilOnly(proc, key, outcome) ==
  IF outcome = "resolved" THEN proc \ {key} ELSE proc

\* poller.ts:174-176: .finally(() => processing.delete(key))
AfterFinally(proc, key, outcome) == proc \ {key}

\* the handler invocation r moves to run2; when run2 is a settled promise
\* the .catch/.finally continuations run in the same turn
Commit(r, run2) ==
  IF Settled(run2)
  THEN /\ runs' = [runs EXCEPT ![r] = IdleRun]
       /\ processing' = AfterFinally(processing, run2.pr, run2.pc)
       /\ rejected' = IF run2.pc = "rejected" THEN rejected \cup {run2.pr}
                      ELSE rejected
       /\ alive' = (alive /\ AfterCatch(run2.pc) = "resolved")
  ELSE /\ runs' = [runs EXCEPT ![r] = run2]
       /\ UNCHANGED <<processing, rejected, alive>>

\* ----------------------------------------------------------------- setLabel
\* the response of issues.removeLabel for `name` on a PR carrying `ls`
RemoveStatuses(ls, name) ==
  (IF name \in ls THEN {OK} ELSE {NOT_FOUND}) \cup {SERVER_ERROR}

IsError(status) == status >= 400

RethrowAlways(status) == TRUE

\* labeler.ts:28-31: catch (err) { if (status !== 404) throw err; }
Rethrow(status) == status # NOT_FOUND

\* what the caller of setLabel does when the call returns (res = "ok") or
\* throws (res = "rmerr" for a removal, "adderr" for addLabels)
AfterSetLabel(run, res) ==
  LET r1 == [run EXCEPT !.res = res, !.rm = {}] IN
  CASE run.kind = "call" -> [r1 EXCEPT !.pc = "ret"]
    [] run.kind = "review" /\ run.ctx = "catch" ->
         \* pipeline.ts (review) catch block: logged, the promise fulfils
         [r1 EXCEPT !.pc = "resolved"]
    [] run.kind = "review" /\ run.ctx = "main" ->
         IF res # "ok" THEN [r1 EXCEPT !.pc = "catch", !.target = "none"]
         ELSE IF run.out \in {"buildfail", "noplatform"}
              THEN [r1 EXCEPT !.pc = "resolved"]
              ELSE [r1 EXCEPT !.pc = "prune"]
    [] run.kind = "write" ->
         IF res # "ok" THEN [r1 EXCEPT !.pc = "catch", !.target = "none"]
         ELSE IF run.out = "limit"
              THEN [r1 EXCEPT !.pc = "resolved"]
              ELSE [r1 EXCEPT !.pc = "prune"]
    [] run.kind = "ci" ->
         [r1 EXCEPT !.pc = IF res = "ok" THEN "resolved" ELSE "rejected"]

RemoveTargetOnly(labelName) ==
  {i \in DOMAIN BOT_LABELS : BOT_LABELS[i] = labelName}

\* labeler.ts:20: BOT_LABELS.map(...), the target label included
ToRemove(labelName) == DOMAIN BOT_LABELS

\* setLabel entry: the removeLabel requests are issued
EnterSetLabel(run, name) ==
  [run EXCEPT !.pc = "rm", !.target = name, !.rm = ToRemove(name),
              !.res = "none", !.err = 0]

\* the requests of a call that can be answered next
Servable(rm, window) ==
  {i \in rm : Cardinality({j \in rm : j < i}) < window}

\* one removeLabel request is served and answered
RemoveLabel(r, i, window) ==
  LET run == runs[r]
      name == BOT_LABELS[i] IN
  /\ run.pc = "rm"
  /\ i \in Servable(run.rm, window)
  /\ \E status \in RemoveStatuses(labels[run.pr], name) :
       LET served == IF status = OK THEN labels[run.pr] \ {name}
                     ELSE labels[run.pr] IN
       IF IsError(status) /\ Rethrow(status)
       THEN \* Promise.all rejects; each request still in flight reaches the
            \* server or not
            \E landed \in SUBSET {BOT_LABELS[j] : j \in run.rm \ {i}} :
              /\ landed \subseteq served
              /\ labels' = [labels EXCEPT ![run.pr] = served \ landed]
              /\ Commit(r, AfterSetLabel([run EXCEPT !.err = status],
                                          "rmerr"))
       ELSE /\ labels' = [labels EXCEPT ![run.pr] = served]
            /\ Commit(r, IF run.rm = {i}
                         THEN [run EXCEPT !.pc = "add", !.rm = {}]
                         ELSE [run EXCEPT !.rm = run.rm \ {i}])
  /\ UNCHANGED <<reviewTags, ticks, fixes, quota, input, output, job, history>>

\* issues.addLabels({labels: [labelName]})
AddLabels(r) ==
  LET run == runs[r] IN
  /\ run.pc = "add"
  /\ \E status \in {OK, SERVER_ERROR} :
       IF status = OK
       THEN /\ labels' = [labels EXCEPT ![run.pr] = @ \cup {run.target}]
            /\ Commit(r, AfterSetLabel(run, "ok"))
       ELSE /\ labels' = labels
            /\ Commit(r, AfterSetLabel([run EXCEPT !.err = status],
                                        "adderr"))
  /\ UNCHANGED <<reviewTags, ticks, fixes, quota, input, output, job, history>>

\* a caller that makes setLabel calls one after another
CallSetLabel(p, name) ==
  /\ runs[1].pc \in {"idle", "ret"}
  /\ runs' = [runs EXCEPT ![1] =
       EnterSetLabel([IdleRun EXCEPT !.kind = "call", !.pr = p,
                                     !.out = labels[p]], name)]
  /\ UNCHANGED <<labels, reviewTags, processing, ticks, alive, rejected, fixes,
                 quota, input, output, job, history>>

\* ------------------------------------------------------------------- Init
AtMostOne(ls) == Cardinality(ls) <= 1

InitPlatform ==
  /\ labels \in [PRs -> {ls \in SUBSET BotLabels : AtMostOne(ls)}]
  /\ reviewTags \in [PRs -> 0..MaxTags]

InitProcess ==
  /\ processing = {}
  /\ ticks = [t \in TickIds |-> IdleTick]
  /\ runs = [r \in RunIds |-> IdleRun]
  /\ alive = TRUE
  /\ rejected = {}
  /\ fixes = [p \in PRs |-> 0]
  /\ job = IdleJob
  /\ history = <<>>

InitSystem ==
  /\ InitPlatform
  /\ InitProcess
  /\ input = <<>>
  /\ output = <<>>

\* a function of the program applied on its own: nothing else is running
InitIdle ==
  /\ labels = [p \in PRs |-> {}]
  /\ reviewTags = [p \in PRs |-> 0]
  /\ InitProcess
  /\ quota = 0
  /\ output = <<>>

Init == InitSystem /\ quota = MaxDispatch

InitSeq == InitSystem /\ quota = MaxSeqDispatch

\* ------------------------------------------------------------ the poller
\* pollOnce: the label each pollForLabel call lists and the handler it starts
PhaseLabel(phase) ==
  CASE phase = 1 -> RN [] phase = 2 -> CN [] OTHER -> CIP

PhaseHandler(phase) ==
  CASE phase = 1 -> "review" [] phase = 2 -> "write" [] OTHER -> "ci"

LastPhase == 3

\* pollForLabel's for loop over `items` up to its next await: entries found
\* in the registry are skipped; the first other entry is fetched with
\* pulls.get; at the end of the list pollOnce goes on to its next call
Loop(tick, items, proc) ==
  LET todo == {p \in items : p \notin proc} IN
  IF todo # {}
  THEN [tick EXCEPT !.pc = "get", !.cur = Min(todo),
                    !.items = {p \in items : p > Min(todo)}]
  ELSE IF tick.phase = LastPhase
       THEN IdleTick
       ELSE [pc |-> "list", phase |-> tick.phase + 1, cur |-> 0, items |-> {}]

FreeRun == {r \in RunIds : runs[r].pc = "idle"}

\* startPoller: the immediate pollOnce, or the setInterval callback
StartTick(t) ==
  /\ alive
  /\ ticks[t].pc = "idle"
  /\ \A u \in TickIds : u < t => ticks[u].pc # "idle"
  /\ ticks' = [ticks EXCEPT ![t] =
       [pc |-> "list", phase |-> 1, cur |-> 0, items |-> {}]]
  /\ UNCHANGED <<labels, reviewTags, processing, runs, alive, rejected, fixes,
                 quota, input, output, job, history>>

\* issues.listForRepo answers with the open PRs carrying the label
ListForRepo(t) ==
  LET tick == ticks[t] IN
  /\ tick.pc = "list"
  /\ ticks' = [ticks EXCEPT ![t] =
       Loop(tick, {p \in PRs : PhaseLabel(tick.phase) \in labels[p]},
            processing)]
  /\ UNCHANGED <<labels, reviewTags, processing, runs, alive, rejected, fixes,
                 quota, input, output, job, history>>

\* pulls.get answers: processing.add(key), the handler is started and the
\* loop goes on
Dispatch(t) ==
  LET tick == ticks[t] IN
  /\ tick.pc = "get"
  /\ FreeRun # {}
  /\ quota > 0
  /\ quota' = quota - 1
  /\ processing' = processing \cup {tick.cur}
  /\ runs' = [runs EXCEPT ![Min(FreeRun)] =
       [IdleRun EXCEPT !.pc = "start", !.kind = PhaseHandler(tick.phase),
                       !.pr = tick.cur]]
  /\ ticks' = [ticks EXCEPT ![t] = Loop(tick, tick.items, processing')]
  /\ UNCHANGED <<labels, reviewTags, alive, rejected, fixes, input, output, job, history>>

\* a listing or pulls.get throws: pollOnce rejects and startPoller logs it
TickFails(t) ==
  /\ ticks[t].pc \in {"list", "get"}
  /\ ticks' = [ticks EXCEPT ![t] = IdleTick]
  /\ UNCHANGED <<labels, reviewTags, processing, runs, alive, rejected, fixes,
                 quota, input, output, job, history>>

\* ------------------------------------------------------- comment history
\* an issue comment whose footer carries review::<id> of a run that has no
\* comment in the history yet adds one distinct id
Tag(tags, fresh) == IF fresh /\ tags < MaxTags THEN tags + 1 ELSE tags

\* ------------------------------------------------------ the review pipeline
DecideCommentsOnly(found) ==
  IF "comments" \in found THEN "changes" ELSE "approve"

\* step 9: hasUnresolved || hasNewComments, on what the merged result holds
Decide(found) == IF found # {} THEN "changes" ELSE "approve"

\* steps 1-7: clone, build/test gate, platform detection, the two agent
\* passes and the merge; none of them writes shared state.  `fresh` says
\* that reviewId is set and that no issue comment carries it yet
ReviewWork(r) ==
  LET run == runs[r] IN
  /\ run.kind = "review" /\ run.pc = "start"
  /\ \/ \* clonePR throws
        Commit(r, [run EXCEPT !.pc = "catch"])
     \/ \* runBuildAndTests or listFiles throws
        Commit(r, [run EXCEPT !.pc = "catch", !.acts = {"checkout"}])
     \/ \* a runClaudeCode call rejects (reviewId is set by then)
        Commit(r, [run EXCEPT !.pc = "catch", !.acts = {"checkout", "agent"},
                              !.fresh = TRUE])
     \/ \E o \in {"buildfail", "noplatform"} :
          Commit(r, [run EXCEPT !.pc = "post", !.out = o,
                                !.acts = {"checkout"}])
     \/ \E found \in SUBSET {"unresolved", "comments"} :
          Commit(r, [run EXCEPT !.pc = "post", !.out = Decide(found),
                                !.found = found, !.fresh = TRUE,
                                !.acts = {"checkout", "agent"}])
  /\ UNCHANGED <<labels, reviewTags, ticks, fixes, quota, input, output, job, history>>

ReviewTargetApprove(out) == HRN

\* the label of the branch taken: bot-changes-needed after a failed gate, an
\* undetected platform or a review with open items, else human-review-needed
ReviewTarget(out) == IF out = "approve" THEN HRN ELSE CN

\* the comments of the run are posted (the failure comment, or step 8 and
\* the LGTM comment), then setLabel is entered.  Replies and reviews are not
\* issue comments; a free-standing comment of step 8 and the LGTM comment are
ReviewPost(r) ==
  LET run == runs[r] IN
  /\ run.kind = "review" /\ run.pc = "post"
  /\ \E issueTagged \in (IF run.out = "approve" THEN {TRUE}
                         ELSE IF run.out = "changes" THEN BOOLEAN
                         ELSE {FALSE}) :
     \E threw \in BOOLEAN :
       /\ reviewTags' = [reviewTags EXCEPT ![run.pr] = Tag(@, issueTagged)]
       /\ Commit(r, IF threw
                    THEN [run EXCEPT !.pc = "catch", !.found = {},
                                     !.fresh = run.fresh /\ ~issueTagged]
                    ELSE EnterSetLabel(
                           [run EXCEPT !.fresh = run.fresh /\ ~issueTagged,
                                       !.posted = 1, !.found = {}],
                           ReviewTarget(run.out)))
  /\ UNCHANGED <<labels, ticks, fixes, quota, input, output, job, history>>

\* step 10: pruneCheckouts
ReviewPrune(r) ==
  LET run == runs[r] IN
  /\ run.kind = "review" /\ run.pc = "prune"
  /\ \/ Commit(r, [run EXCEPT !.pc = "resolved"])
     \/ Commit(r, [run EXCEPT !.pc = "catch", !.target = "none"])
  /\ UNCHANGED <<labels, reviewTags, ticks, fixes, quota, input, output, job, history>>

\* the catch block: the error comment, then setLabel(bot-changes-needed)
ReviewCatch(r) ==
  LET run == runs[r] IN
  /\ run.kind = "review" /\ run.pc = "catch"
  /\ \/ /\ reviewTags' = [reviewTags EXCEPT ![run.pr] = Tag(@, run.fresh)]
        /\ Commit(r, EnterSetLabel(
               [run EXCEPT !.ctx = "catch", !.fresh = FALSE,
                           !.posted = IF @ < 2 THEN @ + 1 ELSE @],
               CN))
     \/ \* postGeneralComment throws: logged
        /\ Commit(r, [run EXCEPT !.pc = "resolved"])
        /\ UNCHANGED reviewTags
  /\ UNCHANGED <<labels, ticks, fixes, quota, input, output, job, history>>

\* ------------------------------------------------------- the write pipeline
AtLimitStrict(cycleCount) == cycleCount > MAX_REVIEW_CYCLES

\* pipeline.ts (writer): if (cycleCount >= config.MAX_REVIEW_CYCLES)
AtLimit(cycleCount) == cycleCount >= MAX_REVIEW_CYCLES

\* step 1: issues.listComments answers and countReviewCycles is applied
WriteCount(r) ==
  LET run == runs[r] IN
  /\ run.kind = "write" /\ run.pc = "start"
  /\ \/ Commit(r, [run EXCEPT !.pc = "catch"])
     \/ Commit(r, IF AtLimit(reviewTags[run.pr])
                  THEN [run EXCEPT !.pc = "post", !.out = "limit"]
                  ELSE [run EXCEPT !.pc = "clone", !.out = "below"])
  /\ UNCHANGED <<labels, reviewTags, ticks, fixes, quota, input, output, job, history>>

\* step 2: clonePR
WriteClone(r) ==
  LET run == runs[r] IN
  /\ run.kind = "write" /\ run.pc = "clone"
  /\ \/ Commit(r, [run EXCEPT !.pc = "catch"])
     \/ Commit(r, [run EXCEPT !.pc = "fix", !.acts = {"checkout"}])
  /\ UNCHANGED <<labels, reviewTags, ticks, fixes, quota, input, output, job, history>>

\* steps 3-9: base merge and conflict resolution, platform detection, the
\* code-fix pass, hasChanges and the build/test safety net
WriteFix(r) ==
  LET run == runs[r]
      fixed == [fixes EXCEPT ![run.pr] = IF @ < MaxFixes THEN @ + 1 ELSE @]
  IN
  /\ run.kind = "write" /\ run.pc = "fix"
  /\ \/ \* fetchBase, the merge or listFiles throws
        /\ Commit(r, [run EXCEPT !.pc = "catch"])
        /\ UNCHANGED fixes
     \/ \* conflict markers remain after the conflict-resolution pass
        /\ Commit(r, [run EXCEPT !.pc = "post", !.out = "markers",
                                 !.acts = @ \cup {"agent"}])
        /\ UNCHANGED fixes
     \/ /\ Commit(r, [run EXCEPT !.pc = "post", !.out = "noplatform"])
        /\ UNCHANGED fixes
     \/ \* the code-fix pass rejects
        /\ Commit(r, [run EXCEPT !.pc = "catch", !.acts = @ \cup {"agent"}])
        /\ fixes' = fixed
     \/ \E o \in {"nochanges", "buildfail"} :
          /\ Commit(r, [run EXCEPT !.pc = "post", !.out = o,
                                   !.acts = @ \cup {"agent"}])
          /\ fixes' = fixed
     \/ /\ Commit(r, [run EXCEPT !.pc = "push", !.out = "fixed",
                                 !.acts = @ \cup {"agent"}])
        /\ fixes' = fixed
  /\ UNCHANGED <<labels, reviewTags, ticks, quota, input, output, job, history>>

\* step 10: commitAndPush
WritePush(r) ==
  LET run == runs[r] IN
  /\ run.kind = "write" /\ run.pc = "push"
  /\ \/ Commit(r, [run EXCEPT !.pc = "catch"])
     \/ Commit(r, [run EXCEPT !.pc = "post", !.acts = @ \cup {"push"}])
  /\ UNCHANGED <<labels, reviewTags, ticks, fixes, quota, input, output, job, history>>

\* the comment of the run is posted (hand-off, failure, or steps 11-12);
\* none of them carries a review:: id
WritePost(r) ==
  LET run == runs[r] IN
  /\ run.kind = "write" /\ run.pc = "post"
  /\ \/ Commit(r, [run EXCEPT !.pc = "catch"])
     \/ Commit(r, CASE run.out = "limit" ->
                         EnterSetLabel([run EXCEPT !.posted = 1], HI)
                    [] run.out = "fixed" ->
                         EnterSetLabel([run EXCEPT !.posted = 1], CIP)
                    [] OTHER -> [run EXCEPT !.pc = "resolved"])
  /\ UNCHANGED <<labels, reviewTags, ticks, fixes, quota, input, output, job, history>>

\* step 13: pruneCheckouts
WritePrune(r) ==
  LET run == runs[r] IN
  /\ run.kind = "write" /\ run.pc = "prune"
  /\ \/ Commit(r, [run EXCEPT !.pc = "resolved"])
     \/ Commit(r, [run EXCEPT !.pc = "catch"])
  /\ UNCHANGED <<labels, reviewTags, ticks, fixes, quota, input, output, job, history>>

\* the catch block: the error comment is attempted, no label is written
WriteCatch(r) ==
  LET run == runs[r] IN
  /\ run.kind = "write" /\ run.pc = "catch"
  /\ Commit(r, [run EXCEPT !.pc = "resolved"])
  /\ UNCHANGED <<labels, reviewTags, ticks, fixes, quota, input, output, job, history>>

\* ----------------------------------------------------------- the CI handler
CIStates == {"passed", "failed", "pending"}

\* Date.now() - new Date(commitDate).getTime()
Elapsed == (0 - MaxTime)..MaxTime

TimedOutReversed(elapsed) == elapsed < CI_POLL_TIMEOUT_MS

\* ci-handler.ts:78: if (elapsed > config.CI_POLL_TIMEOUT_MS)
TimedOut(elapsed) == elapsed > CI_POLL_TIMEOUT_MS

\* a pending verdict is waited for whatever the clock says
CIOutcomeUntimed(state, dated, elapsed) ==
  CASE state = "passed" -> "passed"
    [] state = "failed" -> "failed"
    [] OTHER -> "wait"

\* the branch handleCIPending takes; "wait" is a return without any write,
\* `dated` says that the head commit has a committer or author date
CIOutcome(state, dated, elapsed) ==
  CASE state = "passed" -> "passed"
    [] state = "failed" -> "failed"
    [] OTHER -> IF dated /\ TimedOut(elapsed) THEN "timeout" ELSE "wait"

\* checkCI, and for a pending verdict getCommit and the timeout test
CICheck(r) ==
  LET run == runs[r] IN
  /\ run.kind = "ci" /\ run.pc = "start"
  /\ \/ \* checkCI or getCommit throws
        Commit(r, [run EXCEPT !.pc = "rejected"])
     \/ \E state \in CIStates, dated \in BOOLEAN, elapsed \in Elapsed :
          LET o == CIOutcome(state, dated, elapsed) IN
          Commit(r, IF o = "wait" THEN [run EXCEPT !.pc = "resolved"]
                    ELSE [run EXCEPT !.pc = "post", !.out = o])
  /\ UNCHANGED <<labels, reviewTags, ticks, fixes, quota, input, output, job, history>>

CITargetSwapped(out) == IF out = "passed" THEN CN ELSE RN

\* the label of the branch taken
CITarget(out) == IF out = "passed" THEN RN ELSE CN

\* the verdict comment, then setLabel is entered
CIPost(r) ==
  LET run == runs[r] IN
  /\ run.kind = "ci" /\ run.pc = "post"
  /\ \/ Commit(r, [run EXCEPT !.pc = "rejected"])
     \/ Commit(r, EnterSetLabel([run EXCEPT !.posted = 1],
                                CITarget(run.out)))
  /\ UNCHANGED <<labels, reviewTags, ticks, fixes, quota, input, output, job, history>>

\* ------------------------------------------------------- the whole system
Next ==
  \/ \E t \in TickIds : StartTick(t)
  \/ \E t \in TickIds : ListForRepo(t)
  \/ \E t \in TickIds : Dispatch(t)
  \/ \E t \in TickIds : TickFails(t)
  \/ \E r \in RunIds : ReviewWork(r)
  \/ \E r \in RunIds : ReviewPost(r)
  \/ \E r \in RunIds : ReviewPrune(r)
  \/ \E r \in RunIds : ReviewCatch(r)
  \/ \E r \in RunIds : WriteCount(r)
  \/ \E r \in RunIds : WriteClone(r)
  \/ \E r \in RunIds : WriteFix(r)
  \/ \E r \in RunIds : WritePush(r)
  \/ \E r \in RunIds : WritePost(r)
  \/ \E r \in RunIds : WritePrune(r)
  \/ \E r \in RunIds : WriteCatch(r)
  \/ \E r \in RunIds : CICheck(r)
  \/ \E r \in RunIds : CIPost(r)
  \/ \E r \in RunIds, i \in DOMAIN BOT_LABELS : RemoveLabel(r, i, Window)
  \/ \E r \in RunIds : AddLabels(r)

Spec == Init /\ [][Next]_vars

\* ------------------------------- polls that finish within POLL_INTERVAL_MS
StartTickAlone ==
  /\ \A t \in TickIds : ticks[t].pc = "idle"
  /\ StartTick(1)

NextSeq ==
  \/ StartTickAlone
  \/ \E t \in TickIds : ListForRepo(t)
  \/ \E t \in TickIds : Dispatch(t)
  \/ \E t \in TickIds : TickFails(t)
  \/ \E r \in RunIds : ReviewWork(r)
  \/ \E r \in RunIds : ReviewPost(r)
  \/ \E r \in RunIds : ReviewPrune(r)
  \/ \E r \in RunIds : ReviewCatch(r)
  \/ \E r \in RunIds : WriteCount(r)
  \/ \E r \in RunIds : WriteClone(r)
  \/ \E r \in RunIds : WriteFix(r)
  \/ \E r \in RunIds : WritePush(r)
  \/ \E r \in RunIds : WritePost(r)
  \/ \E r \in RunIds : WritePrune(r)
  \/ \E r \in RunIds : WriteCatch(r)
  \/ \E r \in RunIds : CICheck(r)
  \/ \E r \in RunIds : CIPost(r)
  \/ \E r \in RunIds, i \in DOMAIN BOT_LABELS : RemoveLabel(r, i, Window)
  \/ \E r \in RunIds : AddLabels(r)

SpecSeq == InitSeq /\ [][NextSeq]_vars

\* ------------------------------------------------- setLabel in isolation
NextLabel ==
  \/ \E p \in PRs, name \in BotLabels : CallSetLabel(p, name)
  \/ \E i \in DOMAIN BOT_LABELS : RemoveLabel(1, i, Len(BOT_LABELS))
  \/ AddLabels(1)

InitLabel == InitSystem /\ quota = 0

SpecLabel == InitLabel /\ [][NextLabel]_vars

\* ------------------------------------------- setLabel and a process exit
\* poller.ts shutdown (SIGTERM, SIGINT): process.exit(0) with the runs in
\* progress; what the process held in memory is gone, and each removeLabel
\* request in flight reaches the platform or not.  alive is FALSE until the
\* process is started again
shutdown ==
  /\ alive
  /\ alive' = FALSE
  /\ \E landed \in [PRs -> SUBSET BotLabels] :
       /\ \A p \in PRs :
            landed[p] \subseteq
              UNION {{BOT_LABELS[i] : i \in runs[r].rm} :
                       r \in {q \in RunIds : runs[q].pr = p}}
       /\ labels' = [p \in PRs |-> labels[p] \ landed[p]]
  /\ runs' = [r \in RunIds |-> IdleRun]
  /\ processing' = {}
  /\ ticks' = [t \in TickIds |-> IdleTick]
  /\ UNCHANGED <<reviewTags, rejected, fixes, quota, input, output, job,
                 history>>

\* index.ts: startPoller(octokit) in a new process
startPoller ==
  /\ ~alive
  /\ alive' = TRUE
  /\ UNCHANGED <<labels, reviewTags, processing, ticks, runs, rejected, fixes,
                 quota, input, output, job, history>>

\* every PR is under one bot label when the process starts
InitExit ==
  /\ InitLabel
  /\ \A p \in PRs : labels[p] # {}

NextExit ==
  \/ \E p \in PRs, name \in BotLabels : alive /\ CallSetLabel(p, name)
  \/ \E i \in DOMAIN BOT_LABELS : RemoveLabel(1, i, Len(BOT_LABELS))
  \/ AddLabels(1)
  \/ shutdown
  \/ startPoller

SpecExit == InitExit /\ [][NextExit]_vars

\* ------------------------------------------------------ countReviewCycles
\* a comment body is a string over: the literal "review::", a character of
\* the class [a-f0-9-], and a character outside it
Marker == "review::"
Hex == "a"
Other == "z"
Chars == {Marker, Hex, Other}

SeqsUpTo(S, n) == UNION {[1..k -> S] : k \in 0..n}

\* {body?: string}: `has` is FALSE when the comment has no body
Comments ==
  {[has |-> FALSE, body |-> <<>>]}
    \cup {[has |-> TRUE, body |-> b] : b \in SeqsUpTo(Chars, MaxBody)}

\* the capture group ([a-f0-9-]+) of a match whose literal ends before i:
\* the longest run of class characters from i on
RECURSIVE Capture(_, _)
Capture(body, i) ==
  IF i <= Len(body) /\ body[i] = Hex
  THEN <<body[i]>> \o Capture(body, i + 1)
  ELSE <<>>

\* body.matchAll(/review::([a-f0-9-]+)/g): match[1] of each match, in order
RECURSIVE MatchAll(_, _)
MatchAll(body, i) ==
  IF i > Len(body) THEN <<>>
  ELSE IF body[i] = Marker /\ Capture(body, i + 1) # <<>>
       THEN <<Capture(body, i + 1)>>
              \o MatchAll(body, i + 1 + Len(Capture(body, i + 1)))
       ELSE MatchAll(body, i + 1)

Range(s) == {s[i] : i \in DOMAIN s}

\* the for loop over comments: if (!comment.body) continue; reviewIds.add
RECURSIVE ReviewIds(_, _)
ReviewIds(comments, reviewIds) ==
  IF comments = <<>> THEN reviewIds
  ELSE LET comment == Head(comments) IN
       ReviewIds(Tail(comments),
                 IF ~comment.has \/ comment.body = <<>> THEN reviewIds
                 ELSE reviewIds \cup Range(MatchAll(comment.body, 1)))

RECURSIVE CountMatches(_)
CountMatches(comments) ==
  IF comments = <<>> THEN 0
  ELSE Len(MatchAll(Head(comments).body, 1)) + CountMatches(Tail(comments))

\* return reviewIds.size
countReviewCycles(comments) == Cardinality(ReviewIds(comments, {}))

InitCount == InitIdle /\ input \in SeqsUpTo(Comments, MaxComments)

CallCount ==
  /\ output = <<>>
  /\ output' = <<countReviewCycles(input)>>
  /\ UNCHANGED <<labels, reviewTags, processing, ticks, runs, alive, rejected,
                 fixes, quota, input, job, history>>

NextCount == CallCount

SpecCount == InitCount /\ [][NextCount]_vars

\* ----------------------------------------------------------------- checkCI
Names == {"build", "test"}

\* checks.listForRef: conclusion is "null" until the run has one
CheckRuns ==
  [name : Names, status : {"completed", "in_progress"},
   conclusion : {"success", "failure", "cancelled", "timed_out", "null"}]

\* repos.getCombinedStatusForRef
Statuses ==
  [context : Names, state : {"success", "failure", "error", "pending"}]

\* the loop over runs: completed runs whose conclusion is a failing one
RECURSIVE FailedRuns(_)
FailedRuns(rs) ==
  IF rs = <<>> THEN <<>>
  ELSE LET run == Head(rs)
           conclusion == IF run.conclusion = "null" THEN "unknown"
                         ELSE run.conclusion
       IN
       IF run.status # "completed" THEN FailedRuns(Tail(rs))
       ELSE IF conclusion \in {"failure", "cancelled", "timed_out"}
            THEN <<[name |-> run.name, conclusion |-> conclusion]>>
                   \o FailedRuns(Tail(rs))
            ELSE FailedRuns(Tail(rs))

\* the loop over statuses
RECURSIVE FailedStatuses(_)
FailedStatuses(ss) ==
  IF ss = <<>> THEN <<>>
  ELSE LET status == Head(ss) IN
       IF status.state \in {"failure", "error"}
       THEN <<[name |-> status.context, conclusion |-> status.state]>>
              \o FailedStatuses(Tail(ss))
       ELSE FailedStatuses(Tail(ss))

pendingRuns(rs) == \E i \in DOMAIN rs : rs[i].status # "completed"

pendingStatuses(ss) == \E i \in DOMAIN ss : ss[i].state = "pending"

checkCIPendingFirst(rs, ss) ==
  IF pendingRuns(rs) \/ pendingStatuses(ss)
  THEN [state |-> "pending", failedChecks |-> <<>>]
  ELSE IF FailedRuns(rs) \o FailedStatuses(ss) # <<>>
       THEN [state |-> "failed",
             failedChecks |-> FailedRuns(rs) \o FailedStatuses(ss)]
       ELSE [state |-> "passed", failedChecks |-> <<>>]

\* the CIResult without its summary text
checkCI(rs, ss) ==
  LET failedChecks == FailedRuns(rs) \o FailedStatuses(ss) IN
  IF Len(rs) = 0 /\ Len(ss) = 0
  THEN [state |-> "passed", failedChecks |-> <<>>]
  ELSE IF Len(failedChecks) > 0
       THEN [state |-> "failed", failedChecks |-> failedChecks]
       ELSE IF pendingRuns(rs) \/ pendingStatuses(ss)
            THEN [state |-> "pending", failedChecks |-> <<>>]
            ELSE [state |-> "passed", failedChecks |-> <<>>]

InitCI ==
  /\ InitIdle
  /\ input \in [runs : SeqsUpTo(CheckRuns, MaxCheckRuns),
                statuses : SeqsUpTo(Statuses, MaxStatuses)]

CallCheckCI ==
  /\ output = <<>>
  /\ output' = <<checkCI(input.runs, input.statuses)>>
  /\ UNCHANGED <<labels, reviewTags, processing, ticks, runs, alive, rejected,
                 fixes, quota, input, job, history>>

NextCI == CallCheckCI

SpecCI == InitCI /\ [][NextCI]_vars

\* ------------------------------------------- the CI handler's decision
\* what one handleCIPending invocation does, given checkCI's verdict, the
\* head commit's date and the clock
handleCIPending(state, dated, commitDate, now) ==
  LET o == CIOutcome(state, dated, now - commitDate) IN
  [outcome |-> o, comment |-> o # "wait",
   label |-> IF o = "wait" THEN "none" ELSE CITarget(o)]

InitHandleCI ==
  /\ InitIdle
  /\ input \in [state : CIStates, dated : BOOLEAN,
                commitDate : 0..MaxTime, now : 0..MaxTime]

CallHandleCI ==
  /\ output = <<>>
  /\ output' = <<handleCIPending(input.state, input.dated, input.commitDate,
                                 input.now)>>
  /\ UNCHANGED <<labels, reviewTags, processing, ticks, runs, alive, rejected,
                 fixes, quota, input, job, history>>

NextHandleCI == CallHandleCI

SpecHandleCI == InitHandleCI /\ [][NextHandleCI]_vars

\* ------------------------------------------------------------ mergeResults
\* ReviewComment: path is a file or null, line is <<n>> or <<>> for null
ReviewComments ==
  [path : {"a.ts", "null"},
   line : {<<>>} \cup {<<n>> : n \in 1..MaxLine},
   body : {"x", "y"}]

\* ThreadResponse without its response text
ThreadResponses == [thread_id : {"t1", "t2"}, resolved : BOOLEAN]

Abs(n) == IF n < 0 THEN 0 - n ELSE n

IsDuplicateIgnoringBody(deduped, comment) ==
  \E k \in DOMAIN deduped :
    LET existing == deduped[k] IN
    /\ existing.path = comment.path
    /\ existing.line # <<>>
    /\ comment.line # <<>>
    /\ Abs(existing.line[1] - comment.line[1]) <= 2

\* deduped.some((existing) => ...)
IsDuplicate(deduped, comment) ==
  \E k \in DOMAIN deduped :
    LET existing == deduped[k] IN
    /\ existing.path = comment.path
    /\ existing.line # <<>>
    /\ comment.line # <<>>
    /\ Abs(existing.line[1] - comment.line[1]) <= 2
    /\ existing.body = comment.body

\* the loop over allComments
RECURSIVE Dedup(_, _)
Dedup(allComments, deduped) ==
  IF allComments = <<>> THEN deduped
  ELSE Dedup(Tail(allComments),
             IF IsDuplicate(deduped, Head(allComments)) THEN deduped
             ELSE Append(deduped, Head(allComments)))

\* threadMap.set(tr.thread_id, tr) on a Map kept as its entries in insertion
\* order: an existing key keeps its place and takes the new value
MapSet(threadMap, tr) ==
  IF \E k \in DOMAIN threadMap : threadMap[k].thread_id = tr.thread_id
  THEN [k \in DOMAIN threadMap |->
          IF threadMap[k].thread_id = tr.thread_id THEN tr ELSE threadMap[k]]
  ELSE Append(threadMap, tr)

RECURSIVE SetAll(_, _)
SetAll(threadMap, trs) ==
  IF trs = <<>> THEN threadMap
  ELSE SetAll(MapSet(threadMap, Head(trs)), Tail(trs))

MergeThreadsDetailWins(archThreads, detailThreads) ==
  SetAll(SetAll(<<>>, archThreads), detailThreads)

\* the two loops over thread_responses and Array.from(threadMap.values())
MergeThreads(archThreads, detailThreads) ==
  SetAll(SetAll(<<>>, detailThreads), archThreads)

\* the MergedReviewResult without architecture_update_needed and summary
mergeResults(archResult, detailResult) ==
  [comments |-> Dedup(archResult.comments \o detailResult.comments, <<>>),
   thread_responses |->
     MergeThreads(archResult.thread_responses,
                  detailResult.thread_responses)]

\* the results of the two passes: comments to merge, or thread verdicts to
\* reconcile
InitMerge ==
  /\ InitIdle
  /\ \/ input \in
          [arch : [comments : SeqsUpTo(ReviewComments, MaxArch),
                   thread_responses : {<<>>}],
           detail : [comments : SeqsUpTo(ReviewComments, MaxDetail),
                     thread_responses : {<<>>}]]
     \/ input \in
          [arch : [comments : {<<>>},
                   thread_responses : SeqsUpTo(ThreadResponses, MaxThreads)],
           detail : [comments : {<<>>},
                     thread_responses : SeqsUpTo(ThreadResponses, MaxThreads)]]

CallMerge ==
  /\ output = <<>>
  /\ output' = <<mergeResults(input.arch, input.detail)>>
  /\ UNCHANGED <<labels, reviewTags, processing, ticks, runs, alive, rejected,
                 fixes, quota, input, job, history>>

NextMerge == CallMerge

SpecMerge == InitMerge /\ [][NextMerge]_vars

\* ---------------------------------------------------------- detectPlatform
EXTENSION_MAP ==
  [ext \in {".swift", ".kt", ".kts", ".go", ".tsx", ".ts", ".jsx"} |->
     CASE ext = ".swift" -> "ios"
       [] ext \in {".kt", ".kts"} -> "android"
       [] ext = ".go" -> "golang"
       [] OTHER -> "react"]

\* a file name as its pieces: "a" is a character other than the dot, the
\* others are a dot followed by letters
Pieces == {"a", ".swift", ".kt", ".kts"}
FileNames == SeqsUpTo(Pieces, 2) \ {<<>>}

\* file.slice(file.lastIndexOf(".")): from the last dot on, or the last
\* character of a name without a dot
Ext(file) ==
  LET dots == {k \in DOMAIN file : file[k] # "a"} IN
  IF dots = {} THEN <<"a">>
  ELSE SubSeq(file, CHOOSE k \in dots : \A m \in dots : m <= k, Len(file))

\* EXTENSION_MAP[ext], "none" for undefined
PlatformOf(file) ==
  LET ext == Ext(file) IN
  IF Len(ext) = 1 /\ ext[1] \in DOMAIN EXTENSION_MAP
  THEN EXTENSION_MAP[ext[1]] ELSE "none"

\* counts[platform] = (counts[platform] ?? 0) + 1 on an object kept as its
\* entries in insertion order
Increment(counts, platform) ==
  IF \E k \in DOMAIN counts : counts[k].platform = platform
  THEN [k \in DOMAIN counts |->
          IF counts[k].platform = platform
          THEN [platform |-> platform, count |-> counts[k].count + 1]
          ELSE counts[k]]
  ELSE Append(counts, [platform |-> platform, count |-> 1])

RECURSIVE Count(_, _)
Count(files, counts) ==
  IF files = <<>> THEN counts
  ELSE Count(Tail(files),
             IF PlatformOf(Head(files)) # "none"
             THEN Increment(counts, PlatformOf(Head(files)))
             ELSE counts)

BetterOrEqual(count, bestCount) == count >= bestCount

\* if (count > bestCount)
Better(count, bestCount) == count > bestCount

\* the loop over Object.entries(counts)
RECURSIVE Best(_, _, _)
Best(entries, best, bestCount) ==
  IF entries = <<>> THEN best
  ELSE IF Better(Head(entries).count, bestCount)
       THEN Best(Tail(entries), Head(entries).platform, Head(entries).count)
       ELSE Best(Tail(entries), best, bestCount)

detectPlatform(files) == Best(Count(files, <<>>), "none", 0)

InitDetect ==
  /\ InitIdle
  /\ input \in SeqsUpTo(FileNames, MaxFiles)

CallDetect ==
  /\ output = <<>>
  /\ output' = <<detectPlatform(input)>>
  /\ UNCHANGED <<labels, reviewTags, processing, ticks, runs, alive, rejected,
                 fixes, quota, input, job, history>>

NextDetect == CallDetect

SpecDetect == InitDetect /\ [][NextDetect]_vars

\* -------------------------------------------------------------- postReview
\* the comments postReview is given, by the index k they have in its list;
\* what it needs of a comment is which of path and line are null
PostedComments ==
  {c \in ReviewComments : c.body = "x" /\ c.line \in {<<>>, <<1>>}}

\* the indices in S in the order of the list
RECURSIVE InOrder(_)
InOrder(S) ==
  IF S = {} THEN <<>> ELSE <<Min(S)>> \o InOrder(S \ {Min(S)})

\* client.ts: c.path !== null && c.line !== null
IsInline(c) == c.path # "null" /\ c.line # <<>>

\* client.ts: c.path === null
IsGeneral(c) == c.path = "null"

\* a call that was answered with success, as the platform keeps it
CreateReview(summary, ks) ==
  [api |-> "createReview", summary |-> summary, comments |-> ks,
   restated |-> FALSE]

CreateComment(k, restated) ==
  [api |-> "createComment", summary |-> FALSE, comments |-> <<k>>,
   restated |-> restated]

\* the loop that retries each inline comment as a review of its own and
\* falls back to an issue comment restating path and line; `sent` are the
\* calls answered with success so far
RECURSIVE RetryInline(_, _, _)
RetryInline(ks, ok, sent) ==
  IF ks = <<>> THEN [sent |-> sent, threw |-> FALSE]
  ELSE LET k == Head(ks) IN
       IF ok.single[k]
       THEN RetryInline(Tail(ks), ok,
                        Append(sent, CreateReview(FALSE, <<k>>)))
       ELSE IF ok.fallback[k]
            THEN RetryInline(Tail(ks), ok,
                             Append(sent, CreateComment(k, TRUE)))
            ELSE [sent |-> sent, threw |-> TRUE]

\* the loop over generalComments
RECURSIVE PostGeneral(_, _, _)
PostGeneral(ks, ok, sent) ==
  IF ks = <<>> THEN [sent |-> sent, threw |-> FALSE]
  ELSE IF ok.general[Head(ks)]
       THEN PostGeneral(Tail(ks), ok,
                        Append(sent, CreateComment(Head(ks), FALSE)))
       ELSE [sent |-> sent, threw |-> TRUE]

\* postReview(comments, summary) where ok says which calls the platform
\* answers with success; summary is TRUE for a non-empty string.  The result
\* is the calls that succeeded and whether postReview threw
postReview(comments, summary, ok) ==
  LET inlineComments ==
        InOrder({k \in DOMAIN comments : IsInline(comments[k])})
      generalComments ==
        InOrder({k \in DOMAIN comments : IsGeneral(comments[k])})
      reviewed ==
        IF inlineComments # <<>> \/ summary
        THEN IF ok.batch
             THEN [sent |-> <<CreateReview(summary, inlineComments)>>,
                   threw |-> FALSE]
             ELSE IF summary /\ ~ok.summary
                  THEN [sent |-> <<>>, threw |-> TRUE]
                  ELSE RetryInline(inlineComments, ok,
                         IF summary THEN <<CreateReview(TRUE, <<>>)>>
                         ELSE <<>>)
        ELSE [sent |-> <<>>, threw |-> FALSE]
  IN IF reviewed.threw THEN reviewed
     ELSE PostGeneral(generalComments, ok, reviewed.sent)

\* which of the calls postReview may make are answered with success
Answers(n) ==
  [batch : BOOLEAN, summary : BOOLEAN, single : [1..n -> BOOLEAN],
   fallback : [1..n -> BOOLEAN], general : [1..n -> BOOLEAN]]

InitPostReview ==
  /\ InitIdle
  /\ \E comments \in SeqsUpTo(PostedComments, MaxPosted) :
       input \in [comments : {comments}, summary : BOOLEAN,
                  ok : Answers(Len(comments))]

CallPostReview ==
  /\ output = <<>>
  /\ output' = <<postReview(input.comments, input.summary, input.ok)>>
  /\ UNCHANGED <<labels, reviewTags, processing, ticks, runs, alive, rejected,
                 fixes, quota, input, job, history>>

NextPostReview == CallPostReview

SpecPostReview == InitPostReview /\ [][NextPostReview]_vars

\* ------------------------------------------------ replies to review threads
\* a merged thread verdict; response says that it carries a response text
Verdicts == [thread_id : {"t1", "t2"}, resolved : BOOLEAN, response : BOOLEAN]

\* the values of a Map keyed by thread_id
MergedVerdicts ==
  {trs \in SeqsUpTo(Verdicts, MaxThreads) :
     \A k, m \in DOMAIN trs : trs[k].thread_id = trs[m].thread_id => k = m}

\* a comment, reply or review as the platform keeps it: the call that made
\* it, what it says, the thread it replies to (createReply) or names in its
\* body, and the review:: id of its footer ("none" without one)
Posted(api, what, thread, review) ==
  [api |-> api, what |-> what, thread |-> thread, review |-> review]

\* the answers to the calls of a loop over n threads
ReplyAnswers(n) ==
  [reply : [1..n -> {OK, NOT_FOUND, SERVER_ERROR}],
   fallback : [1..n -> BOOLEAN]]

\* pipeline.ts (review): the loop over the resolved verdicts, from index k on
RECURSIVE ResolvedReplies(_, _, _, _, _)
ResolvedReplies(trs, k, reviewId, ans, sent) ==
  IF k > Len(trs) THEN sent
  ELSE LET tr == trs[k] IN
       ResolvedReplies(trs, k + 1, reviewId, ans,
         IF ~tr.resolved THEN sent
         ELSE IF ans.reply[k] = OK
              THEN Append(sent, Posted("createReply", "resolved",
                                       tr.thread_id, reviewId))
              ELSE IF ans.reply[k] = NOT_FOUND /\ ans.fallback[k]
                   THEN Append(sent, Posted("createComment", "resolved",
                                            tr.thread_id, reviewId))
                   ELSE sent)

\* pipeline.ts (review): the loop over the unresolved verdicts that carry a
\* response; a failed reply is logged
RECURSIVE UnresolvedReplies(_, _, _, _, _)
UnresolvedReplies(trs, k, reviewId, ans, sent) ==
  IF k > Len(trs) THEN sent
  ELSE LET tr == trs[k] IN
       UnresolvedReplies(trs, k + 1, reviewId, ans,
         IF ~tr.resolved /\ tr.response /\ ans.reply[k] = OK
         THEN Append(sent, Posted("createReply", "response",
                                  tr.thread_id, reviewId))
         ELSE sent)

\* step 8 up to the new comments: both loops
ThreadReplies(trs, reviewId, ans) ==
  UnresolvedReplies(trs, 1, reviewId, ans,
                    ResolvedReplies(trs, 1, reviewId, ans, <<>>))

InitReplies ==
  /\ InitIdle
  /\ \E trs \in MergedVerdicts :
       input \in [trs : {trs}, ans : ReplyAnswers(Len(trs))]

CallReplies ==
  /\ output = <<>>
  /\ output' = <<ThreadReplies(input.trs, "r1", input.ans)>>
  /\ UNCHANGED <<labels, reviewTags, processing, ticks, runs, alive, rejected,
                 fixes, quota, input, job, history>>

NextReplies == CallReplies

SpecReplies == InitReplies /\ [][NextReplies]_vars

\* ---------------------------------------- one write pipeline run, in detail
\* runWritePipeline on PR 1, dispatched under bot-changes-needed.  job.acts
\* lists what the run did to its checkout, in order; job.markers says that
\* conflict markers were found after the conflict-resolution pass;
\* job.branch names the early return or the label change the run has taken;
\* job.ans keeps the answers the platform gave to the replies of step 11
WriteJob ==
  [pc |-> "start", acts |-> <<>>, markers |-> FALSE, branch |-> "none",
   ans |-> <<>>]

\* result.threads_addressed of the code-fix pass
Addressed == SeqsUpTo({"t1", "t2"}, MaxThreads)

InitWrite ==
  /\ labels = [p \in PRs |-> {CN}]
  /\ reviewTags \in [PRs -> 0..MaxTags]
  /\ processing = {1}
  /\ ticks = [t \in TickIds |-> IdleTick]
  /\ runs = [r \in RunIds |-> IdleRun]
  /\ alive = TRUE
  /\ rejected = {}
  /\ fixes = [p \in PRs |-> 0]
  /\ quota = 0
  /\ input \in [threads_addressed : Addressed]
  /\ output = <<>>
  /\ job = WriteJob
  /\ history = <<>>

\* the variables a step of the run leaves alone besides labels, runs, job
\* and history
JobFrame ==
  UNCHANGED <<reviewTags, processing, ticks, alive, rejected, fixes, quota,
              input, output>>

\* the run goes on at pc2 having done `done` to its checkout
Go(pc2, done) ==
  job' = [job EXCEPT !.pc = pc2, !.acts = job.acts \o done]

\* postGeneralComment(body + makeFooter(randomUUID())) answered with
\* success, then a return
PostAndReturn(what) ==
  /\ history' = Append(history, Posted("createComment", what, "none", "none"))
  /\ job' = [job EXCEPT !.pc = "resolved", !.branch = what]
  /\ UNCHANGED <<labels, runs>>

\* a call throws into the catch block of the pipeline
Throw ==
  /\ job' = [job EXCEPT !.pc = "catch"]
  /\ UNCHANGED <<labels, runs, history>>

\* await setLabel(...): the removeLabel requests are issued
AwaitSetLabel(name) ==
  runs' = [runs EXCEPT ![1] =
    EnterSetLabel([IdleRun EXCEPT !.kind = "call", !.pr = 1,
                                  !.out = labels[1]], name)]

\* step 1: listComments and countReviewCycles; at the limit the hand-off
\* comment and setLabel(bot-human-intervention)
WrCycleLimit ==
  /\ job.pc = "start"
  /\ \/ Throw
     \/ /\ AtLimit(reviewTags[1])
        /\ \/ Throw
           \/ /\ history' = Append(history, Posted("createComment", "handoff",
                                                   "none", "none"))
              /\ job' = [job EXCEPT !.pc = "label", !.branch = "handoff"]
              /\ AwaitSetLabel(HI)
              /\ UNCHANGED labels
     \/ /\ ~AtLimit(reviewTags[1])
        /\ Go("clone", <<>>)
        /\ UNCHANGED <<labels, runs, history>>
  /\ JobFrame

\* step 2: clonePR
WrClonePR ==
  /\ job.pc = "clone"
  /\ \/ Throw
     \/ Go("fetch", <<"clone">>) /\ UNCHANGED <<labels, runs, history>>
  /\ JobFrame

\* step 3: fetchBase, hasMergeConflicts, mergeBase
WrFetchBase ==
  /\ job.pc = "fetch"
  /\ \/ Throw
     \/ \* no conflicts, or mergeBase succeeds
        Go("files", <<>>) /\ UNCHANGED <<labels, runs, history>>
     \/ \* mergeBase leaves conflict markers in the tree
        Go("resolve", <<"merge">>) /\ UNCHANGED <<labels, runs, history>>
  /\ JobFrame

\* step 3: the conflict-resolution pass of the agent
WrResolve ==
  /\ job.pc = "resolve"
  /\ \/ Throw
     \/ Go("verify", <<"conflictAgent">>)
        /\ UNCHANGED <<labels, runs, history>>
  /\ JobFrame

\* git add -A and git commit --no-edit complete the merge
CompleteMerge ==
  \/ Throw
  \/ Go("files", <<"mergeCommit">>) /\ UNCHANGED <<labels, runs, history>>

\* step 3: try { git grep -l "<<<<<<<"; if it lists files: failure comment,
\* git merge --abort, return } catch { }, then the merge commit.  The catch
\* that takes grep's exit code 1 for "no markers" also takes what
\* postGeneralComment throws
WrVerify ==
  /\ job.pc = "verify"
  /\ \/ \* markers remain and the failure comment is posted
        /\ history' = Append(history, Posted("createComment", "markers",
                                             "none", "none"))
        /\ job' = [job EXCEPT !.pc = "resolved", !.markers = TRUE,
                              !.branch = "markers",
                              !.acts = job.acts \o <<"mergeAbort">>]
        /\ UNCHANGED <<labels, runs>>
     \/ \* markers remain and postGeneralComment throws
        /\ \/ /\ job' = [job EXCEPT !.pc = "catch", !.markers = TRUE]
              /\ UNCHANGED <<labels, runs, history>>
           \/ /\ job' = [job EXCEPT !.pc = "files", !.markers = TRUE,
                                    !.acts = job.acts \o <<"mergeCommit">>]
              /\ UNCHANGED <<labels, runs, history>>
     \/ \* no markers: git grep exits with code 1
        CompleteMerge
  /\ JobFrame

\* step 4: listFiles and detectPlatform
WrListFiles ==
  /\ job.pc = "files"
  /\ \/ Throw
     \/ \* no platform detected
        \/ Throw
        \/ PostAndReturn("noplatform")
     \/ Go("fix", <<>>) /\ UNCHANGED <<labels, runs, history>>
  /\ JobFrame

AfterHasChangesIgnored(changed) == "gate"

\* step 8: if (!changed) { ...; return; }
AfterHasChanges(changed) == IF changed THEN "gate" ELSE "return"

\* steps 5-8: the code-fix pass, parseWriteResult and hasChanges
WrCodeFix ==
  /\ job.pc = "fix"
  /\ \/ \* runClaudeCode or hasChanges throws
        /\ job' = [job EXCEPT !.pc = "catch",
                              !.acts = job.acts \o <<"fixAgent">>]
        /\ UNCHANGED <<labels, runs, history>>
     \/ \E changed \in BOOLEAN :
          IF AfterHasChanges(changed) = "gate"
          THEN /\ job' = [job EXCEPT !.pc = "gate",
                            !.acts = job.acts \o <<"fixAgent">>,
                            !.branch = IF changed THEN @ ELSE "nochanges"]
               /\ UNCHANGED <<labels, runs, history>>
          ELSE \* the comment is posted or its call throws
               /\ \/ /\ history' = Append(history, Posted("createComment",
                                              "nochanges", "none", "none"))
                     /\ job' = [job EXCEPT !.pc = "resolved",
                                           !.branch = "nochanges",
                                           !.acts = job.acts \o <<"fixAgent">>]
                  \/ /\ job' = [job EXCEPT !.pc = "catch",
                                           !.branch = "nochanges",
                                           !.acts = job.acts \o <<"fixAgent">>]
                     /\ UNCHANGED history
               /\ UNCHANGED <<labels, runs>>
  /\ JobFrame

AfterGateIgnored(success) == "push"

\* step 9: if (!buildResult.success) { ...; return; }
AfterGate(success) == IF success THEN "push" ELSE "return"

\* step 9: runBuildAndTests on the changes; "gatePassed" says that it
\* reported success
WrGate ==
  /\ job.pc = "gate"
  /\ \/ \* runBuildAndTests throws
        /\ job' = [job EXCEPT !.pc = "catch",
                              !.acts = job.acts \o <<"gate">>]
        /\ UNCHANGED <<labels, runs, history>>
     \/ \E success \in BOOLEAN :
          LET ran == job.acts \o
                       (IF success THEN <<"gate", "gatePassed">>
                        ELSE <<"gate">>) IN
          IF AfterGate(success) = "push"
          THEN /\ job' = [job EXCEPT !.pc = "push", !.acts = ran,
                            !.branch = IF success THEN @ ELSE "buildfail"]
               /\ UNCHANGED <<labels, runs, history>>
          ELSE \* the comment is posted or its call throws
               /\ \/ /\ history' = Append(history, Posted("createComment",
                                              "buildfail", "none", "none"))
                     /\ job' = [job EXCEPT !.pc = "resolved", !.acts = ran,
                                           !.branch = "buildfail"]
                  \/ /\ job' = [job EXCEPT !.pc = "catch", !.acts = ran,
                                           !.branch = "buildfail"]
                     /\ UNCHANGED history
               /\ UNCHANGED <<labels, runs>>
  /\ JobFrame

\* step 10: commitAndPush
WrCommitAndPush ==
  /\ job.pc = "push"
  /\ \/ Throw
     \/ Go("replies", <<"push">>) /\ UNCHANGED <<labels, runs, history>>
  /\ JobFrame

FallbackDropped(status, accepted) == FALSE

\* pipeline.ts (writer): if (status === 404) { try { postGeneralComment } }
Fallback(status, accepted) == status = NOT_FOUND /\ accepted

\* step 11: the loop over result.threads_addressed, from index k on
RECURSIVE AddressedReplies(_, _, _, _)
AddressedReplies(threads, k, ans, sent) ==
  IF k > Len(threads) THEN sent
  ELSE AddressedReplies(threads, k + 1, ans,
         IF ans.reply[k] = OK
         THEN Append(sent, Posted("createReply", "addressed", threads[k],
                                  "none"))
         ELSE IF Fallback(ans.reply[k], ans.fallback[k])
              THEN Append(sent, Posted("createComment", "addressed",
                                       threads[k], "none"))
              ELSE sent)

\* step 11 with the answers of the platform
WrReplies ==
  /\ job.pc = "replies"
  /\ \E ans \in ReplyAnswers(Len(input.threads_addressed)) :
       /\ history' = AddressedReplies(input.threads_addressed, 1, ans, history)
       /\ job' = [job EXCEPT !.pc = "summary", !.ans = ans]
  /\ UNCHANGED <<labels, runs>>
  /\ JobFrame

\* step 12: the summary comment, then setLabel(bot-ci-pending)
WrSummary ==
  /\ job.pc = "summary"
  /\ \/ Throw
     \/ /\ history' = Append(history, Posted("createComment", "summary",
                                             "none", "none"))
        /\ job' = [job EXCEPT !.pc = "label",
                              !.branch = IF @ = "none" THEN "fixed" ELSE @]
        /\ AwaitSetLabel(CIP)
        /\ UNCHANGED labels
  /\ JobFrame

\* setLabel returns or throws to the run that awaits it
WrAfterSetLabel ==
  /\ job.pc = "label"
  /\ runs[1].pc = "ret"
  /\ runs' = [runs EXCEPT ![1] = IdleRun]
  /\ job' = [job EXCEPT !.pc =
       IF runs[1].res # "ok" THEN "catch"
       ELSE IF job.branch = "handoff" THEN "resolved" ELSE "prune"]
  /\ UNCHANGED <<labels, history>>
  /\ JobFrame

\* step 13: pruneCheckouts
WrPrune ==
  /\ job.pc = "prune"
  /\ \/ Throw
     \/ Go("resolved", <<>>) /\ UNCHANGED <<labels, runs, history>>
  /\ JobFrame

\* the catch block: the error comment is attempted, a failure is logged
WrCatch ==
  /\ job.pc = "catch"
  /\ \/ history' = Append(history, Posted("createComment", "error", "none",
                                          "none"))
     \/ UNCHANGED history
  /\ job' = [job EXCEPT !.pc = "resolved"]
  /\ UNCHANGED <<labels, runs>>
  /\ JobFrame

NextWrite ==
  \/ WrCycleLimit
  \/ WrClonePR
  \/ WrFetchBase
  \/ WrResolve
  \/ WrVerify
  \/ WrListFiles
  \/ WrCodeFix
  \/ WrGate
  \/ WrCommitAndPush
  \/ WrReplies
  \/ WrSummary
  \/ \E i \in DOMAIN BOT_LABELS : RemoveLabel(1, i, Window)
  \/ AddLabels(1)
  \/ WrAfterSetLabel
  \/ WrPrune
  \/ WrCatch

SpecWrite == InitWrite /\ [][NextWrite]_vars

\* --------------------------------------- one review pipeline run, in detail
\* what runClaudeCode returned for a pass: json says that a JSON payload can
\* be extracted from it (extractJsonFromOutput is not null)
PassComments == {c \in PostedComments : IsInline(c) \/ IsGeneral(c)}
PassVerdicts == {tr \in Verdicts : tr.thread_id = "t1"}

Garbage ==
  [json |-> FALSE, comments |-> <<>>, thread_responses |-> <<>>,
   needed |-> FALSE]

ArchRaws ==
  {Garbage} \cup
  [json : {TRUE}, comments : SeqsUpTo(PassComments, MaxPass),
   thread_responses : SeqsUpTo(PassVerdicts, MaxPass), needed : BOOLEAN]

DetailRaws == {raw \in ArchRaws : ~raw.needed}

parseArchitectureResultNeeded(raw) ==
  [comments |-> raw.comments, thread_responses |-> raw.thread_responses,
   needed |-> TRUE]

\* parser.ts: if (!data) return { architecture_comments: [],
\* architecture_update_needed: { needed: false }, thread_responses: [] }
parseArchitectureResult(raw) ==
  IF ~raw.json
  THEN [comments |-> <<>>, thread_responses |-> <<>>, needed |-> FALSE]
  ELSE [comments |-> raw.comments, thread_responses |-> raw.thread_responses,
        needed |-> raw.needed]

\* parser.ts: if (!data) return { detail_comments: [], thread_responses: [] }
parseDetailedResult(raw) ==
  IF ~raw.json
  THEN [comments |-> <<>>, thread_responses |-> <<>>]
  ELSE [comments |-> raw.comments, thread_responses |-> raw.thread_responses]

\* runReviewPipeline on PR 1, dispatched under bot-review-needed.
\* job.reviewId is "none" while the variable is undefined; job.ctx is
\* "catch" from the entry of the catch block on; job.caught says how the
\* catch block ended
ReviewJob ==
  [pc |-> "start", acts |-> <<>>, reviewId |-> "none", branch |-> "none",
   ctx |-> "main", caught |-> "none", arch |-> Garbage,
   merged |-> [comments |-> <<>>, thread_responses |-> <<>>],
   needed |-> FALSE]

InitReview ==
  /\ labels = [p \in PRs |-> {RN}]
  /\ reviewTags = [p \in PRs |-> 0]
  /\ processing = {1}
  /\ ticks = [t \in TickIds |-> IdleTick]
  /\ runs = [r \in RunIds |-> IdleRun]
  /\ alive = TRUE
  /\ rejected = {}
  /\ fixes = [p \in PRs |-> 0]
  /\ quota = 0
  /\ input \in [arch : ArchRaws, detail : DetailRaws]
  /\ output = <<>>
  /\ job = ReviewJob
  /\ history = <<>>

\* setLabel(name) with no comment before it
SetLabelUnannounced(what, review, name) ==
  /\ job' = [job EXCEPT !.pc = "label", !.branch = what]
  /\ AwaitSetLabel(name)
  /\ UNCHANGED <<labels, history>>

\* postGeneralComment(body + footer) and then setLabel(name); the comment
\* is posted or its call throws
PostThenSetLabel(what, review, name) ==
  \/ Throw
  \/ /\ history' = Append(history, Posted("createComment", what, "none",
                                          review))
     /\ job' = [job EXCEPT !.pc = "label", !.branch = what]
     /\ AwaitSetLabel(name)
     /\ UNCHANGED labels

\* step 1: clonePR
RvClonePR ==
  /\ job.pc = "start"
  /\ \/ Throw
     \/ Go("build", <<"clone">>) /\ UNCHANGED <<labels, runs, history>>
  /\ JobFrame

\* step 2: runBuildAndTests; the failure comment has makeFooter(randomUUID())
RvBuild ==
  /\ job.pc = "build"
  /\ \/ Throw
     \/ PostThenSetLabel("buildfail", "none", CN)
     \/ Go("files", <<"gate">>) /\ UNCHANGED <<labels, runs, history>>
  /\ JobFrame

\* step 3: listFiles and detectPlatform
RvListFiles ==
  /\ job.pc = "files"
  /\ \/ Throw
     \/ PostThenSetLabel("noplatform", "none", CN)
     \/ Go("arch", <<>>) /\ UNCHANGED <<labels, runs, history>>
  /\ JobFrame

\* steps 4-5: reviewId = randomUUID(), the architecture pass and its parse
RvArch ==
  /\ job.pc = "arch"
  /\ \/ job' = [job EXCEPT !.pc = "catch", !.reviewId = "r1",
                            !.acts = job.acts \o <<"agent">>]
     \/ job' = [job EXCEPT !.pc = "detail", !.reviewId = "r1",
                            !.acts = job.acts \o <<"agent">>,
                            !.arch = parseArchitectureResult(input.arch)]
  /\ UNCHANGED <<labels, runs, history>>
  /\ JobFrame

\* steps 6-7: the detailed pass, its parse and mergeResults
RvDetail ==
  /\ job.pc = "detail"
  /\ \/ job' = [job EXCEPT !.pc = "catch",
                            !.acts = job.acts \o <<"agent">>]
     \/ job' = [job EXCEPT !.pc = "replies",
                  !.acts = job.acts \o <<"agent">>,
                  !.merged = mergeResults(job.arch,
                                          parseDetailedResult(input.detail)),
                  !.needed = job.arch.needed]
  /\ UNCHANGED <<labels, runs, history>>
  /\ JobFrame

\* step 8: the replies to the threads
RvReplies ==
  /\ job.pc = "replies"
  /\ \E ans \in ReplyAnswers(Len(job.merged.thread_responses)) :
       history' = history \o ThreadReplies(job.merged.thread_responses,
                                           job.reviewId, ans)
  /\ Go("comments", <<>>)
  /\ UNCHANGED <<labels, runs>>
  /\ JobFrame

\* what postReview posted, each call with the review id of the footers
RECURSIVE Footed(_, _)
Footed(sent, reviewId) ==
  IF sent = <<>> THEN <<>>
  ELSE <<Posted(Head(sent).api,
                IF Head(sent).comments = <<>> THEN "summary" ELSE "new",
                "none", reviewId)>>
       \o Footed(Tail(sent), reviewId)

\* step 8: if (merged.comments.length > 0) postReview(...); the summary of
\* mergeResults is never empty
RvComments ==
  /\ job.pc = "comments"
  /\ IF job.merged.comments = <<>>
     THEN Go("update", <<>>) /\ UNCHANGED history
     ELSE \E ok \in Answers(Len(job.merged.comments)) :
            LET r == postReview(job.merged.comments, TRUE, ok) IN
            /\ history' = history \o Footed(r.sent, job.reviewId)
            /\ job' = [job EXCEPT !.pc = IF r.threw THEN "catch" ELSE "update"]
  /\ UNCHANGED <<labels, runs>>
  /\ JobFrame

\* step 8: the ARCHITECTURE.md update request
RvUpdate ==
  /\ job.pc = "update"
  /\ IF job.needed
     THEN \/ Throw
          \/ /\ history' = Append(history, Posted("createComment", "update",
                                                  "none", job.reviewId))
             /\ Go("decide", <<>>)
             /\ UNCHANGED <<labels, runs>>
     ELSE Go("decide", <<>>) /\ UNCHANGED <<labels, runs, history>>
  /\ JobFrame

\* what step 9 looks at in the merged result
Found(merged) ==
  (IF \E k \in DOMAIN merged.thread_responses :
        ~merged.thread_responses[k].resolved
   THEN {"unresolved"} ELSE {})
  \cup (IF merged.comments # <<>> THEN {"comments"} ELSE {})

\* step 9: the outcome, the LGTM comment and setLabel
RvDecide ==
  /\ job.pc = "decide"
  /\ IF Decide(Found(job.merged)) = "changes"
     THEN /\ job' = [job EXCEPT !.pc = "label", !.branch = "changes"]
          /\ AwaitSetLabel(ReviewTarget("changes"))
          /\ UNCHANGED <<labels, history>>
     ELSE PostThenSetLabel("approve", job.reviewId, ReviewTarget("approve"))
  /\ JobFrame

CatchUnguarded(ctx, res) == IF res = "ok" THEN "resolved" ELSE "rejected"

\* how the promise of the run settles when setLabel returns or throws in the
\* catch block: catch (postErr) logs
CatchSettles(ctx, res) == "resolved"

\* setLabel returns or throws to the run that awaits it
RvAfterSetLabel ==
  /\ job.pc = "label"
  /\ runs[1].pc = "ret"
  /\ runs' = [runs EXCEPT ![1] = IdleRun]
  /\ job' =
       IF job.ctx = "catch"
       THEN [job EXCEPT !.pc = CatchSettles(job.ctx, runs[1].res),
                        !.caught = IF runs[1].res = "ok" THEN "labelled"
                                   ELSE "labelFailed"]
       ELSE [job EXCEPT !.pc =
               IF runs[1].res # "ok" THEN "catch"
               ELSE IF job.branch \in {"buildfail", "noplatform"}
                    THEN "resolved" ELSE "prune"]
  /\ UNCHANGED <<labels, history>>
  /\ JobFrame

\* step 10: pruneCheckouts
RvPrune ==
  /\ job.pc = "prune"
  /\ \/ Throw
     \/ Go("resolved", <<>>) /\ UNCHANGED <<labels, runs, history>>
  /\ JobFrame

\* the catch block: the error comment with makeFooter(randomUUID(),
\* reviewId), then setLabel(bot-changes-needed); what either throws is logged
RvCatch ==
  /\ job.pc = "catch"
  /\ \/ /\ job' = [job EXCEPT !.pc = "resolved", !.ctx = "catch",
                              !.caught = "commentFailed"]
        /\ UNCHANGED <<labels, runs, history>>
     \/ /\ history' = Append(history, Posted("createComment", "error", "none",
                                             job.reviewId))
        /\ job' = [job EXCEPT !.pc = "label", !.ctx = "catch"]
        /\ AwaitSetLabel(CN)
        /\ UNCHANGED labels
  /\ JobFrame

NextReview ==
  \/ RvClonePR
  \/ RvBuild
  \/ RvListFiles
  \/ RvArch
  \/ RvDetail
  \/ RvReplies
  \/ RvComments
  \/ RvUpdate
  \/ RvDecide
  \/ \E i \in DOMAIN BOT_LABELS : RemoveLabel(1, i, Window)
  \/ AddLabels(1)
  \/ RvAfterSetLabel
  \/ RvPrune
  \/ RvCatch

SpecReview == InitReview /\ [][NextReview]_vars

\* ------------------------------------------------------------ runClaudeCode
\* claude-code-runner.ts runClaudeCode: one invocation.  The promise it
\* returns is settled by whichever of three callbacks calls resolve or reject
\* first; a later call is ignored.  The timer callback and the 'close'
\* callback each save and prune the transcript before they settle, so the two
\* chains run side by side and end in either order
MaxChunks == 2

\* the 'close' event's code: a number, or null when a signal ended the process
ExitCodes == {"0", "1", "null"}

\* part_004 206, 229 and part_006 294, 387: the four awaits, each inside the
\* pipeline's try block
Passes == {"architecture", "detailed", "merge-conflict", "code-fix"}

AgentJob ==
  [pc : {"await", "continued", "catch"}, pass : Passes,
   child : {"running", "exited", "failed"}, code : ExitCodes \cup {"none"},
   killed : BOOLEAN, stdout : 0..MaxChunks,
   timer : {"armed", "fired", "cleared"},
   onTimeout : {"idle", "saving", "done"},
   onClose : {"idle", "saving", "done"},
   promise : {"pending", "resolved", "rejected"}]

\* lines 76-131: the child is spawned, the message written, the timer armed
InitAgent ==
  /\ labels = [p \in PRs |-> {}]
  /\ reviewTags = [p \in PRs |-> 0]
  /\ processing = {1}
  /\ ticks = [t \in TickIds |-> IdleTick]
  /\ runs = [r \in RunIds |-> IdleRun]
  /\ alive = TRUE
  /\ rejected = {}
  /\ fixes = [p \in PRs |-> 0]
  /\ quota = 0
  /\ output = <<>>
  /\ history = <<>>
  /\ \E pass \in Passes :
       /\ input = <<pass>>
       /\ job = [pc |-> "await", pass |-> pass, child |-> "running",
                 code |-> "none", killed |-> FALSE, stdout |-> 0,
                 timer |-> "armed", onTimeout |-> "idle", onClose |-> "idle",
                 promise |-> "pending"]

AgentFrame ==
  UNCHANGED <<labels, reviewTags, processing, ticks, runs, alive, rejected,
              fixes, quota, input, output, history>>

\* resolve and reject of a promise that is already settled do nothing
Settle(promise, outcome) == IF promise = "pending" THEN outcome ELSE promise

\* lines 109-111: child.stdout.on("data")
OnData ==
  /\ job.child = "running"
  /\ job.stdout < MaxChunks
  /\ job' = [job EXCEPT !.stdout = @ + 1]
  /\ AgentFrame

\* the agent process ends: by itself with its exit code, or on the signal,
\* which it may handle and exit with a code of its own
ChildExits(code) ==
  /\ job.child = "running"
  /\ code = "null" => job.killed
  /\ job' = [job EXCEPT !.child = "exited", !.code = code]
  /\ AgentFrame

\* lines 151-154: child.on("error"), the process could not be spawned
OnError ==
  /\ job.child = "running"
  /\ job.timer = "armed"
  /\ job.stdout = 0
  /\ job' = [job EXCEPT !.child = "failed", !.timer = "cleared",
                        !.promise = Settle(@, "rejected")]
  /\ AgentFrame

\* lines 121-125: the timer fires: child.kill("SIGTERM"), saveTranscript
\* started.  The process may have ended already with its 'close' event not
\* yet delivered
OnTimeout ==
  /\ job.timer = "armed"
  /\ job' = [job EXCEPT !.timer = "fired", !.killed = TRUE,
                        !.onTimeout = "saving"]
  /\ AgentFrame

\* lines 126-130: .finally(() => reject(...)) once the transcript is saved
\* and pruned, or that failed and was logged
TimeoutSaved ==
  /\ job.onTimeout = "saving"
  /\ job' = [job EXCEPT !.onTimeout = "done",
                        !.promise = Settle(@, "rejected")]
  /\ AgentFrame

\* lines 133-137: child.on("close"): clearTimeout(timer), saveTranscript
\* started
OnClose ==
  /\ job.child = "exited"
  /\ job.onClose = "idle"
  /\ job' = [job EXCEPT !.onClose = "saving",
                        !.timer = IF @ = "armed" THEN "cleared" ELSE @]
  /\ AgentFrame

\* lines 138-148: resolve(stdout) if code === 0, reject otherwise
CloseSaved ==
  /\ job.onClose = "saving"
  /\ job' = [job EXCEPT !.onClose = "done",
                        !.promise = Settle(@, IF job.code = "0"
                                              THEN "resolved"
                                              ELSE "rejected")]
  /\ AgentFrame

\* the pipeline's await: it goes on with the output, or the rejection is
\* thrown inside the try block and lands in the pipeline's catch
AwaitAgent ==
  /\ job.pc = "await"
  /\ job.promise # "pending"
  /\ job' = [job EXCEPT !.pc = IF job.promise = "resolved"
                                THEN "continued" ELSE "catch"]
  /\ AgentFrame

NextAgent ==
  \/ OnData
  \/ \E code \in ExitCodes : ChildExits(code)
  \/ OnError
  \/ OnTimeout
  \/ TimeoutSaved
  \/ OnClose
  \/ CloseSaved
  \/ AwaitAgent

SpecAgent == InitAgent /\ [][NextAgent]_vars

\* ------------------------------------------------- checkouts and their pruning
\* part_001 clonePR and pruneCheckouts over one work directory shared by all
\* pipeline runs.  KEEP stands for the default of the keep parameter (30)
KEEP == 1
MaxClock == 3
NumWorkers == 3

\* the runs; the registry of the poller gives each a PR of its own, and
\* worker w is the run for PR number w
Workers == 1..NumWorkers

\* line 19-22: review-${owner}-${repo}-${prNumber}-${Date.now()}
TargetDir(prNumber, now) == <<"review", prNumber, now>>

Checkouts ==
  [now : 0..MaxClock,
   dirs : SUBSET [name : {"review"} \X Workers \X (0..MaxClock),
                  mtimeMs : 0..MaxClock],
   run : [Workers -> [pc : {"idle", "working", "done", "catch"},
                      dir : ({"review"} \X Workers \X (0..MaxClock))
                              \cup {<<>>}]]]

InitCheckout ==
  /\ labels = [p \in PRs |-> {}]
  /\ reviewTags = [p \in PRs |-> 0]
  /\ processing = {}
  /\ ticks = [t \in TickIds |-> IdleTick]
  /\ runs = [r \in RunIds |-> IdleRun]
  /\ alive = TRUE
  /\ rejected = {}
  /\ fixes = [p \in PRs |-> 0]
  /\ quota = 0
  /\ input = <<>>
  /\ output = <<>>
  /\ history = <<>>
  /\ job = [now |-> 0, dirs |-> {},
            run |-> [w \in Workers |-> [pc |-> "idle", dir |-> <<>>]]]

CheckoutFrame ==
  UNCHANGED <<labels, reviewTags, processing, ticks, runs, alive, rejected,
              fixes, quota, input, output, history>>

\* Date.now() moves on
Advance ==
  /\ job.now < MaxClock
  /\ job' = [job EXCEPT !.now = @ + 1]
  /\ CheckoutFrame

\* lines 17-38: git clone into targetDir; it fails when the directory is
\* there already
clonePR(w) ==
  LET targetDir == TargetDir(w, job.now)
  IN /\ job.run[w].pc = "idle"
     /\ IF \E d \in job.dirs : d.name = targetDir
        THEN job' = [job EXCEPT !.run[w].pc = "catch"]
        ELSE job' = [job EXCEPT
                       !.dirs = @ \cup {[name |-> targetDir,
                                         mtimeMs |-> job.now]},
                       !.run[w] = [pc |-> "working", dir |-> targetDir]]
     /\ CheckoutFrame

\* a step of the run that writes an entry of its checkout's top directory;
\* gone directories are not written to
Touch(w) ==
  /\ job.run[w].pc = "working"
  /\ \E d \in job.dirs :
       /\ d.name = job.run[w].dir
       /\ d.mtimeMs # job.now
       /\ job' = [job EXCEPT !.dirs = (@ \ {d})
                               \cup {[d EXCEPT !.mtimeMs = job.now]}]
  /\ CheckoutFrame

\* lines 62-69: sort newest first, slice(keep), rm the rest.  The sort is
\* stable over the order readdir listed the entries in, so among directories
\* of one mtime any may be the one kept
ToDelete(dirs, keep) ==
  {D \in SUBSET dirs :
     /\ Cardinality(dirs \ D) = Min({keep, Cardinality(dirs)})
     /\ \A k \in dirs \ D, d \in D : k.mtimeMs >= d.mtimeMs}

\* part_004 355-356, part_006 495-496: the run's last step,
\* pruneCheckouts(config.WORK_DIR)
pruneCheckouts(w) ==
  /\ job.run[w].pc = "working"
  /\ \E D \in ToDelete(job.dirs, KEEP) :
       job' = [job EXCEPT !.dirs = @ \ D, !.run[w].pc = "done"]
  /\ CheckoutFrame

NextCheckout ==
  \/ Advance
  \/ \E w \in Workers : clonePR(w)
  \/ \E w \in Workers : Touch(w)
  \/ \E w \in Workers : pruneCheckouts(w)

SpecCheckout == InitCheckout /\ [][NextCheckout]_vars

\* ------------------------------------- the poller and the review run, fair
\* poller.ts pollOnce on a timer over PR 1 and the review run of the section
\* above.  A tick lists the PRs under bot-review-needed, skips a PR in the
\* registry and starts runReviewPipeline; the run's finally releases the
\* registry entry.  quota bounds the number of runs started
MaxPolls == 1

InitPolled ==
  /\ labels = [p \in PRs |-> {RN}]
  /\ reviewTags = [p \in PRs |-> 0]
  /\ processing = {}
  /\ ticks = [t \in TickIds |-> IdleTick]
  /\ runs = [r \in RunIds |-> IdleRun]
  /\ alive = TRUE
  /\ rejected = {}
  /\ fixes = [p \in PRs |-> 0]
  /\ quota = MaxPolls
  /\ input \in [arch : ArchRaws, detail : DetailRaws]
  /\ output = <<>>
  /\ job = [ReviewJob EXCEPT !.pc = "idle"]
  /\ history = <<>>

\* poller.ts 131-176 under pollOnce line 182: the PR is listed by its label,
\* is not in the registry, and its pipeline is started
PollReview ==
  /\ alive
  /\ quota > 0
  /\ RN \in labels[1]
  /\ 1 \notin processing
  /\ processing' = processing \cup {1}
  /\ quota' = quota - 1
  /\ job' = ReviewJob
  /\ UNCHANGED <<labels, reviewTags, ticks, runs, alive, rejected, fixes,
                 input, output, history>>

\* poller.ts 174-176: .finally(() => processing.delete(key))
ReleaseReview ==
  /\ job.pc = "resolved"
  /\ 1 \in processing
  /\ processing' = processing \ {1}
  /\ job' = [job EXCEPT !.pc = "idle"]
  /\ UNCHANGED <<labels, reviewTags, ticks, runs, alive, rejected, fixes,
                 quota, input, output, history>>

NextPolled ==
  \/ PollReview
  \/ NextReview
  \/ ReleaseReview

\* the timer keeps firing, the platform answers every request and the event
\* loop runs every continuation that is ready
SpecPolled == InitPolled /\ [][NextPolled]_vars /\ WF_vars(NextPolled)

\* ------------------------------------- the poller and the CI handler, fair
\* pollOnce line 184 and handleCIPending over PR 1 under bot-ci-pending, with
\* the clock and the state of CI.  input says whether the head commit
\* carries a date and which; job.failed says that a call of a handler run
\* has thrown
CIJob ==
  [pc |-> "idle", now |-> 0, state |-> "pending", branch |-> "none",
   failed |-> FALSE]

InitCIWait ==
  /\ labels = [p \in PRs |-> {CIP}]
  /\ reviewTags = [p \in PRs |-> 0]
  /\ processing = {}
  /\ ticks = [t \in TickIds |-> IdleTick]
  /\ runs = [r \in RunIds |-> IdleRun]
  /\ alive = TRUE
  /\ rejected = {}
  /\ fixes = [p \in PRs |-> 0]
  /\ quota = 0
  /\ input \in [dated : BOOLEAN,
                commitDate : 0..(MaxTime - CI_POLL_TIMEOUT_MS - 1)]
  /\ output = <<>>
  /\ job = CIJob
  /\ history = <<>>

\* Date.now() moves on
ClockTick ==
  /\ job.now < MaxTime
  /\ job' = [job EXCEPT !.now = @ + 1]
  /\ UNCHANGED <<labels, runs, history>>
  /\ JobFrame

\* the checks of the head commit complete
CIChange(state) ==
  /\ job.state = "pending"
  /\ state # "pending"
  /\ job' = [job EXCEPT !.state = state]
  /\ UNCHANGED <<labels, runs, history>>
  /\ JobFrame

\* poller.ts 131-176 under pollOnce line 184: the PR is listed under
\* bot-ci-pending, is not in the registry, and handleCIPending is started
PollCI ==
  /\ job.pc = "idle"
  /\ CIP \in labels[1]
  /\ 1 \notin processing
  /\ processing' = processing \cup {1}
  /\ job' = [job EXCEPT !.pc = "check", !.branch = "none"]
  /\ UNCHANGED <<labels, reviewTags, ticks, runs, alive, rejected, fixes,
                 quota, input, output, history>>

\* a call of the handler throws: the handler has no try block, its promise
\* rejects
CiThrow ==
  /\ job' = [job EXCEPT !.pc = "rejected", !.failed = TRUE]
  /\ UNCHANGED <<labels, runs, history>>

\* ci-handler.ts 19-76: checkCI, and for a pending verdict getCommit and the
\* timeout test
CiCheck ==
  /\ job.pc = "check"
  /\ \/ CiThrow
     \/ LET o == CIOutcome(job.state, input.dated,
                           job.now - input.commitDate) IN
        /\ job' = [job EXCEPT !.pc = IF o = "wait" THEN "resolved"
                                      ELSE "post",
                              !.branch = o]
        /\ UNCHANGED <<labels, runs, history>>
  /\ JobFrame

\* ci-handler.ts 23-31, 44-58, 79-93: the verdict comment, then setLabel.
\* The history is kept up to MaxPosted comments
CiPost ==
  /\ job.pc = "post"
  /\ \/ CiThrow
     \/ /\ history' = IF Len(history) < MaxPosted
                      THEN Append(history, Posted("createComment", job.branch,
                                                  "none", "none"))
                      ELSE history
        /\ job' = [job EXCEPT !.pc = "label"]
        /\ AwaitSetLabel(CITarget(job.branch))
        /\ UNCHANGED labels
  /\ JobFrame

\* setLabel returns or throws to the handler
CiAfterSetLabel ==
  /\ job.pc = "label"
  /\ runs[1].pc = "ret"
  /\ runs' = [runs EXCEPT ![1] = IdleRun]
  /\ job' = IF runs[1].res = "ok" THEN [job EXCEPT !.pc = "resolved"]
            ELSE [job EXCEPT !.pc = "rejected", !.failed = TRUE]
  /\ UNCHANGED <<labels, history>>
  /\ JobFrame

\* poller.ts 171-176: a rejection is logged, the registry entry is deleted
CiRelease ==
  /\ job.pc \in {"resolved", "rejected"}
  /\ processing' = processing \ {1}
  /\ job' = [job EXCEPT !.pc = "idle"]
  /\ UNCHANGED <<labels, reviewTags, ticks, runs, alive, rejected, fixes,
                 quota, input, output, history>>

\* the steps of the poller, of the handler and of the platform's answers
CIRun ==
  \/ PollCI
  \/ CiCheck
  \/ CiPost
  \/ \E i \in DOMAIN BOT_LABELS : RemoveLabel(1, i, Window)
  \/ AddLabels(1)
  \/ CiAfterSetLabel
  \/ CiRelease

NextCIWait ==
  \/ ClockTick
  \/ \E state \in CIStates : CIChange(state)
  \/ CIRun

\* the timer keeps firing and time passes; whether the checks ever complete
\* is left open
SpecCIWait ==
  InitCIWait /\ [][NextCIWait]_vars /\ WF_vars(ClockTick) /\ WF_vars(CIRun)

\* --------------------------------------- the poller, its runs and a signal
\* the system of sequential polls with the SIGTERM/SIGINT handler of
\* startPoller (poller.ts 207-224) taken at any moment
NextStop ==
  \/ NextSeq
  \/ shutdown

SpecStop == InitSeq /\ [][NextStop]_vars

\* ------------------------------------ the listing and the time it is read
\* pollForLabel's issues.listForRepo, in two steps: the platform computes
\* the answer from the labels of that moment, and the poller's loop reads it
\* once the await returns.  Runs started earlier go on in between
ListServed(t) ==
  LET tick == ticks[t] IN
  /\ tick.pc = "list"
  /\ ticks' = [ticks EXCEPT ![t] =
       [tick EXCEPT !.pc = "listed",
                    !.items = {p \in PRs : PhaseLabel(tick.phase)
                                             \in labels[p]}]]
  /\ UNCHANGED <<labels, reviewTags, processing, runs, alive, rejected, fixes,
                 quota, input, output, job, history>>

\* poller.ts 142-155: the loop over the answer, with the registry of now
ListHandled(t) ==
  LET tick == ticks[t] IN
  /\ tick.pc = "listed"
  /\ ticks' = [ticks EXCEPT ![t] = Loop(tick, tick.items, processing)]
  /\ UNCHANGED <<labels, reviewTags, processing, runs, alive, rejected, fixes,
                 quota, input, output, job, history>>

\* the label under which pollOnce starts a handler
HandledLabel(kind) ==
  CASE kind = "review" -> RN [] kind = "write" -> CN [] OTHER -> CIP

NextStale ==
  \/ StartTickAlone
  \/ \E t \in TickIds : ListServed(t)
  \/ \E t \in TickIds : ListHandled(t)
  \/ \E t \in TickIds : Dispatch(t)
  \/ \E t \in TickIds : TickFails(t)
  \/ \E r \in RunIds : ReviewWork(r)
  \/ \E r \in RunIds : ReviewPost(r)
  \/ \E r \in RunIds : ReviewPrune(r)
  \/ \E r \in RunIds : ReviewCatch(r)
  \/ \E r \in RunIds : WriteCount(r)
  \/ \E r \in RunIds : WriteClone(r)
  \/ \E r \in RunIds : WriteFix(r)
  \/ \E r \in RunIds : WritePush(r)
  \/ \E r \in RunIds : WritePost(r)
  \/ \E r \in RunIds : WritePrune(r)
  \/ \E r \in RunIds : WriteCatch(r)
  \/ \E r \in RunIds : CICheck(r)
  \/ \E r \in RunIds : CIPost(r)
  \/ \E r \in RunIds, i \in DOMAIN BOT_LABELS : RemoveLabel(r, i, Window)
  \/ \E r \in RunIds : AddLabels(r)

SpecStale == InitSeq /\ [][NextStale]_vars

\* --------------------------------------------- a poll that fails, logged
\* startPoller 195-204: pollOnce(octokit).catch((err) => logger.error(...)).
\* output is the log of failed polls, kept up to MaxLogged lines
MaxLogged == 2

\* the rejection of pollOnce is not caught: the process ends on it
PollFailsUncaught(t) ==
  /\ ticks[t].pc \in {"list", "get"}
  /\ Len(output) < MaxLogged
  /\ alive' = FALSE
  /\ ticks' = [ticks EXCEPT ![t] = IdleTick]
  /\ output' = Append(output, "Unhandled rejection")
  /\ UNCHANGED <<labels, reviewTags, processing, runs, rejected, fixes,
                 quota, input, job, history>>

\* repos.listForAuthenticatedUser, issues.listForRepo or pulls.get throws:
\* pollForLabel and pollOnce reject, the catch of startPoller logs, and the
\* rest of the tick is not run
PollFails(t) ==
  /\ ticks[t].pc \in {"list", "get"}
  /\ Len(output) < MaxLogged
  /\ ticks' = [ticks EXCEPT ![t] = IdleTick]
  /\ output' = Append(output, "Poll cycle failed")
  /\ UNCHANGED <<labels, reviewTags, processing, runs, alive, rejected, fixes,
                 quota, input, job, history>>

NextPollFail ==
  \/ StartTickAlone
  \/ \E t \in TickIds : ListForRepo(t)
  \/ \E t \in TickIds : Dispatch(t)
  \/ \E t \in TickIds : PollFails(t)
  \/ \E r \in RunIds : ReviewWork(r)
  \/ \E r \in RunIds : ReviewPost(r)
  \/ \E r \in RunIds : ReviewPrune(r)
  \/ \E r \in RunIds : ReviewCatch(r)
  \/ \E r \in RunIds : WriteCount(r)
  \/ \E r \in RunIds : WriteClone(r)
  \/ \E r \in RunIds : WriteFix(r)
  \/ \E r \in RunIds : WritePush(r)
  \/ \E r \in RunIds : WritePost(r)
  \/ \E r \in RunIds : WritePrune(r)
  \/ \E r \in RunIds : WriteCatch(r)
  \/ \E r \in RunIds : CICheck(r)
  \/ \E r \in RunIds : CIPost(r)
  \/ \E r \in RunIds, i \in DOMAIN BOT_LABELS : RemoveLabel(r, i, Window)
  \/ \E r \in RunIds : AddLabels(r)

SpecPollFail == InitSeq /\ [][NextPollFail]_vars

\* ================================================================= claims
Perms(n) ==
  {f \in [1..n -> 1..n] : \A i, j \in 1..n : f[i] = f[j] => i = j}

\* C11: countReviewCycles returns the number of distinct identifiers that
\* follow "review::" in the bodies; the result does not change when the
\* comments are permuted, when a comment is repeated or when a tag is
\* repeated inside its body, and a comment without body or without tag can be
\* dropped without changing it.
C11_CountsDistinctIds ==
  output # <<>> =>
    LET n == Len(input)
        tags(c) == IF c.has THEN Range(MatchAll(c.body, 1)) ELSE {}
    IN
    /\ output[1] = Cardinality(UNION {tags(input[i]) : i \in 1..n})
    /\ \A f \in Perms(n) :
         countReviewCycles([i \in 1..n |-> input[f[i]]]) = output[1]
    /\ \A i \in 1..n :
         /\ countReviewCycles(Append(input, input[i])) = output[1]
         /\ \A id \in tags(input[i]) :
              countReviewCycles(
                [input EXCEPT ![i].body = @ \o <<Other, Marker>> \o id])
                = output[1]
         /\ tags(input[i]) = {} =>
              countReviewCycles(SubSeq(input, 1, i - 1)
                                  \o SubSeq(input, i + 1, n)) = output[1]

\* two comments carrying the same identifier, one of them twice, were counted
C11_Witness ==
  /\ output = <<1>>
  /\ Len(input) = 2
  /\ \A i \in 1..2 : input[i].has /\ MatchAll(input[i].body, 1) # <<>>
  /\ \E i \in 1..2 : Len(MatchAll(input[i].body, 1)) = 2
Calls == {r \in RunIds : runs[r].kind = "call" /\ runs[r].pc = "ret"}

\* C2: after each setLabel call of a sequence of calls made one after
\* another on a PR returns without throwing, the PR carries exactly the
\* target of that call and no other bot label.
C2_ExactlyTarget ==
  \A r \in Calls :
    runs[r].res = "ok" => labels[runs[r].pr] = {runs[r].target}

\* a call has returned on a PR that carried another label before it
C2_Witness ==
  \E r \in Calls :
    /\ runs[r].res = "ok"
    /\ runs[r].out # {}
    /\ runs[r].out # {runs[r].target}

\* C3: when a removeLabel or the addLabels call inside setLabel fails, the
\* PR is left with at most one bot label; the failure of a removal that
\* makes setLabel throw is never a 404, and setLabel then has not added the
\* target label.
C3_FailureLeavesAtMostOne ==
  \A r \in Calls :
    runs[r].res # "ok" =>
      /\ AtMostOne(labels[runs[r].pr])
      /\ runs[r].res = "rmerr" =>
           /\ runs[r].err # NOT_FOUND
           /\ labels[runs[r].pr] \subseteq runs[r].out

\* a removal has failed with a status other than 404 and the PR still
\* carries the label it had, not the target
C3_Witness ==
  \E r \in Calls :
    /\ runs[r].res = "rmerr"
    /\ labels[runs[r].pr] # {}
    /\ runs[r].target \notin labels[runs[r].pr]

\* C1: in every reachable state of the whole system no PR carries two of the
\* five bot labels.
C1_AtMostOneBotLabel == \A p \in PRs : AtMostOne(labels[p])

\* C4: at any time at most one handler invocation is outstanding for a PR.
C4_AtMostOneRun == \A p \in PRs : Cardinality(RunsOf(p)) <= 1

\* C5: the in-flight registry holds exactly the PRs that have an outstanding
\* handler invocation: the key added at dispatch is removed when the
\* invocation settles, fulfilled or rejected.
C5_RegistryReleased ==
  processing = {p \in PRs : RunsOf(p) # {}}

\* a handler invocation has rejected and its key is no longer registered
C5_Witness ==
  \E p \in rejected : p \notin processing /\ RunsOf(p) = {}

C7_FollowsEdges ==
  \A r \in RunIds :
    (Outstanding(r) /\ runs[r].pc = "rm" /\ runs[r].rm = ToRemove(runs[r].target))
      => \A l \in labels[runs[r].pr] :
           \/ l = RN /\ runs[r].target \in {CN, HRN}
           \/ l = CN /\ runs[r].target \in {CIP, HI, CN}
           \/ l = CIP /\ runs[r].target \in {RN, CN}

\* C8: once a PR carries human-review-needed or bot-human-intervention no
\* step changes its labels and no handler invocation is started for it.
C8_TerminalLabels ==
  [][\A p \in PRs :
       labels[p] \cap {HRN, HI} # {} =>
         /\ labels'[p] = labels[p]
         /\ \A r \in RunIds :
              (runs[r].pc = "idle" /\ runs'[r].pc = "start")
                => runs'[r].pr # p]_vars

\* C9: no PR gets more than MAX_REVIEW_CYCLES code-fix passes.
C9_FixAttemptsBounded == \A p \in PRs : fixes[p] <= MAX_REVIEW_CYCLES

C12_EveryCycleCounted ==
  [][\A r \in RunIds :
       (/\ runs[r].kind = "review" /\ runs[r].ctx = "main"
        /\ runs[r].pc = "add" /\ runs[r].target = CN
        /\ CN \in labels'[runs[r].pr])
         => runs[r].out = "changes" /\ ~runs[r].fresh]_vars

C14_DecisionStep ==
  [][\A r \in RunIds :
       /\ (/\ runs[r].kind = "review" /\ runs[r].pc = "post"
           /\ runs[r].out \in {"changes", "approve"}
           /\ runs'[r].pc = "rm")
            => /\ runs'[r].target = IF runs[r].found # {} THEN CN ELSE HRN
               /\ runs[r].found = {} => ~runs'[r].fresh
       /\ runs'[r].kind = "review"
            => runs'[r].target \in {"none", CN, HRN}]_vars

\* an approving run has posted its comment and is about to add the label
C14_Witness ==
  \E r \in RunIds :
    /\ runs[r].kind = "review" /\ runs[r].out = "approve"
    /\ runs[r].ctx = "main" /\ runs[r].pc = "add"
    /\ runs[r].target = HRN

\* C15: checkCI answers passed when there are neither check runs nor
\* statuses; otherwise failed, with exactly the failing entries in
\* failedChecks, when a completed run concluded failure, cancelled or
\* timed_out or a status is failure or error; otherwise pending when a run
\* is not completed or a status is pending; otherwise passed.
C15_Verdict ==
  output # <<>> =>
    LET rs == input.runs
        ss == input.statuses
        badRun(run) == /\ run.status = "completed"
                       /\ run.conclusion \in {"failure", "cancelled", "timed_out"}
        badStatus(s) == s.state \in {"failure", "error"}
        bad == [i \in 1..Len(SelectSeq(rs, badRun)) |->
                  LET run == SelectSeq(rs, badRun)[i] IN
                  [name |-> run.name, conclusion |-> run.conclusion]]
               \o [i \in 1..Len(SelectSeq(ss, badStatus)) |->
                     LET s == SelectSeq(ss, badStatus)[i] IN
                     [name |-> s.context, conclusion |-> s.state]]
        waiting == \/ \E i \in DOMAIN rs : rs[i].status # "completed"
                   \/ \E i \in DOMAIN ss : ss[i].state = "pending"
    IN
    output[1] =
      IF rs = <<>> /\ ss = <<>> THEN [state |-> "passed", failedChecks |-> <<>>]
      ELSE IF bad # <<>> THEN [state |-> "failed", failedChecks |-> bad]
      ELSE IF waiting THEN [state |-> "pending", failedChecks |-> <<>>]
      ELSE [state |-> "passed", failedChecks |-> <<>>]

\* a failed run next to a run in progress and a pending status: failed
C15_Witness ==
  /\ output # <<>>
  /\ output[1].state = "failed"
  /\ Len(output[1].failedChecks) = 1
  /\ \E i \in DOMAIN input.runs : input.runs[i].status = "in_progress"
  /\ \E i \in DOMAIN input.statuses : input.statuses[i].state = "pending"

\* C16: a CI handler run that goes on to setLabel has posted its comment and
\* asks for bot-review-needed when the verdict is passed and for
\* bot-changes-needed when it is failed (or timed out); a CI handler run
\* never asks for any other label.
C16_CILabels ==
  \A r \in RunIds :
    runs[r].kind = "ci" =>
      /\ runs[r].target \in {"none", RN, CN}
      /\ runs[r].pc \in {"rm", "add"} =>
           /\ runs[r].posted = 1
           /\ runs[r].out = "passed" => runs[r].target = RN
           /\ runs[r].out \in {"failed", "timeout"} => runs[r].target = CN

\* a run whose verdict is failed is about to add the label
C16_Witness ==
  \E r \in RunIds :
    /\ runs[r].kind = "ci" /\ runs[r].out = "failed"
    /\ runs[r].pc = "add" /\ runs[r].target = CN

\* C17: with verdict pending and head commit date T the CI handler posts the
\* timeout comment and sets bot-changes-needed when now - T is greater than
\* CI_POLL_TIMEOUT_MS, and posts nothing and sets no label when now - T is
\* less than it.
C17_Timeout ==
  (output # <<>> /\ input.state = "pending" /\ input.dated) =>
    /\ input.now - input.commitDate > CI_POLL_TIMEOUT_MS
         => output[1].comment /\ output[1].label = CN
    /\ input.now - input.commitDate < CI_POLL_TIMEOUT_MS
         => ~output[1].comment /\ output[1].label = "none"

\* the clock is one unit past the timeout
C17_Witness ==
  /\ output # <<>>
  /\ input.state = "pending" /\ input.dated
  /\ input.now - input.commitDate = CI_POLL_TIMEOUT_MS + 1
  /\ output[1].outcome = "timeout"

\* C18: the comments mergeResults returns are those of the architecture pass
\* followed by those of the detailed pass, without each comment that
\* duplicates an earlier kept one; two comments are duplicates when they have
\* the same path, both have a line number, the numbers differ by at most 2,
\* and the bodies are identical.
C18_Dedup ==
  output # <<>> =>
    LET all == input.arch.comments \o input.detail.comments
        n == Len(all)
        dup(a, b) == /\ a.path = b.path
                     /\ a.line # <<>> /\ b.line # <<>>
                     /\ a.line[1] - b.line[1] \in -2..2
                     /\ a.body = b.body
        pick(K) == [k \in 1..Cardinality(K) |->
                      all[CHOOSE i \in K :
                            Cardinality({j \in K : j <= i}) = k]]
    IN
    \E K \in SUBSET (1..n) :
      /\ \A i \in 1..n :
           i \in K <=> ~\E j \in K : j < i /\ dup(all[j], all[i])
      /\ output[1].comments = pick(K)

\* of three comments with one body on lines 1, 3 and 4 of a file the second
\* is dropped and the third, within 2 lines of the dropped one only, is kept
C18_Witness ==
  /\ output # <<>>
  /\ LET all == input.arch.comments \o input.detail.comments IN
     /\ Len(all) = 3
     /\ \A k \in 1..3 : all[k].path = "a.ts" /\ all[k].body = "x"
     /\ all[1].line = <<1>> /\ all[2].line = <<3>> /\ all[3].line = <<4>>
     /\ output[1].comments = <<all[1], all[3]>>

\* C19: in the merged result every thread id has at most one verdict, every
\* thread id of either pass has one, and a thread id the architecture pass
\* gave a verdict for has the architecture pass's (last) verdict for it.
C19_ThreadVerdicts ==
  output # <<>> =>
    LET arch == input.arch.thread_responses
        detail == input.detail.thread_responses
        merged == output[1].thread_responses
        ids(s) == {s[k].thread_id : k \in DOMAIN s}
        last(s, id) == s[CHOOSE k \in DOMAIN s :
                           /\ s[k].thread_id = id
                           /\ \A m \in DOMAIN s :
                                s[m].thread_id = id => m <= k]
    IN
    /\ \A k, m \in DOMAIN merged :
         merged[k].thread_id = merged[m].thread_id => k = m
    /\ ids(merged) = ids(arch) \cup ids(detail)
    /\ \A k \in DOMAIN merged :
         merged[k] = IF merged[k].thread_id \in ids(arch)
                     THEN last(arch, merged[k].thread_id)
                     ELSE last(detail, merged[k].thread_id)

\* the passes disagree on a thread and the architecture verdict is returned
C19_Witness ==
  /\ output # <<>>
  /\ \E k \in DOMAIN input.arch.thread_responses,
        m \in DOMAIN input.detail.thread_responses :
       /\ input.arch.thread_responses[k].thread_id
            = input.detail.thread_responses[m].thread_id
       /\ input.arch.thread_responses[k].resolved
            # input.detail.thread_responses[m].resolved
       /\ Len(input.arch.thread_responses) = 1
       /\ input.arch.thread_responses[k] \in Range(output[1].thread_responses)

\* C20: detectPlatform returns the platform of the file extension that has
\* the most matching changed files, of several such extensions the one
\* seen first, and none when no file has an extension of a known platform.
C20_ByExtension ==
  output # <<>> =>
    LET known == {i \in DOMAIN input : PlatformOf(input[i]) # "none"}
        n(i) == Cardinality({j \in known : Ext(input[j]) = Ext(input[i])})
    IN
    IF known = {} THEN output[1] = "none"
    ELSE \E i \in known :
           /\ \A j \in known : n(j) < n(i) \/ (n(j) = n(i) /\ i <= j)
           /\ output[1] = PlatformOf(input[i])

\* C20 (amended): detectPlatform returns the platform that has the most
\* changed files with an extension mapped to it, of several such platforms
\* the one seen first, and none when no file has an extension of a known
\* platform.
C20_ByPlatform ==
  output # <<>> =>
    LET known == {i \in DOMAIN input : PlatformOf(input[i]) # "none"}
        n(i) == Cardinality({j \in known :
                               PlatformOf(input[j]) = PlatformOf(input[i])})
    IN
    IF known = {} THEN output[1] = "none"
    ELSE \E i \in known :
           /\ \A j \in known : n(j) < n(i) \/ (n(j) = n(i) /\ i <= j)
           /\ output[1] = PlatformOf(input[i])

\* a Swift file comes first and is outvoted by one .kt and one .kts file
C20_Witness ==
  /\ output = <<"android">>
  /\ Len(input) = 3
  /\ PlatformOf(input[1]) = "ios"
  /\ Ext(input[2]) # Ext(input[3])

\* C23: when postReview returns normally every comment of its list was
\* posted exactly once: in the batch review, in a review of its own,
\* as an issue comment restating path and line, or, having no path, as an
\* issue comment.
C23_PostedOnce ==
  (output # <<>> /\ ~output[1].threw) =>
    \A k \in DOMAIN input.comments :
      Cardinality({i \in DOMAIN output[1].sent :
                     k \in Range(output[1].sent[i].comments)}) = 1

\* C21: for every merged verdict that is resolved or carries a response and
\* whose reply is answered with 404, the review pipeline posts a
\* free-standing comment whose body names the thread id.
C21_FallbackPosted ==
  output # <<>> =>
    \A k \in DOMAIN input.trs :
      ((input.trs[k].resolved \/ input.trs[k].response)
         /\ input.ans.reply[k] = NOT_FOUND) =>
        \E i \in DOMAIN output[1] :
          /\ output[1][i].api = "createComment"
          /\ output[1][i].thread = input.trs[k].thread_id

C24_MarkersStop ==
  job.markers =>
    \A k \in DOMAIN job.acts :
      job.acts[k] \notin {"mergeCommit", "fixAgent", "push"}

\* C25: a run whose code-fix pass left no changes never runs the build
\* gate, commits or pushes and never calls setLabel: the label stays
\* bot-changes-needed; it ends with the one comment of that branch posted,
\* or, when the platform refused it, with at most the error comment.
C25_NoChangesStops ==
  job.branch = "nochanges" =>
    /\ labels[1] = {CN}
    /\ runs[1] = IdleRun
    /\ job.pc \in {"resolved", "catch"}
    /\ \A k \in DOMAIN job.acts : job.acts[k] \notin {"gate", "push"}
    /\ \/ /\ job.pc = "resolved"
          /\ history = <<Posted("createComment", "nochanges", "none", "none")>>
       \/ /\ job.pc = "resolved"
          /\ history = <<Posted("createComment", "error", "none", "none")>>
       \/ history = <<>>

C25_Witness ==
  /\ job.branch = "nochanges"
  /\ job.pc = "resolved"
  /\ history = <<Posted("createComment", "nochanges", "none", "none")>>
  /\ \E k \in DOMAIN job.acts : job.acts[k] = "fixAgent"

\* C26: the write pipeline pushes only after the build gate reported
\* success on the changed tree; setLabel(bot-ci-pending) is called, and the
\* label is bot-ci-pending, only in a run that pushed; a run whose gate
\* failed pushes nothing, never calls setLabel and ends with its failure
\* comment posted or, when the platform refused it, with at most the error
\* comment.
C26_PushAfterGate ==
  /\ \A k \in DOMAIN job.acts :
       job.acts[k] = "push" =>
         \E m \in 1..(k - 1) : job.acts[m] = "gatePassed"
  /\ (CIP \in labels[1] \/ runs[1].target = CIP) =>
       \E k \in DOMAIN job.acts : job.acts[k] = "push"
  /\ job.branch = "buildfail" =>
       /\ labels[1] = {CN}
       /\ runs[1] = IdleRun
       /\ job.pc \in {"resolved", "catch"}
       /\ \A k \in DOMAIN job.acts : job.acts[k] # "push"
       /\ \/ /\ job.pc = "resolved"
             /\ history \in
                  {<<Posted("createComment", "buildfail", "none", "none")>>,
                   <<Posted("createComment", "error", "none", "none")>>}
          \/ history = <<>>

\* the run pushed, posted its summary and set bot-ci-pending
C26_Witness ==
  /\ job.pc = "resolved"
  /\ labels[1] = {CIP}
  /\ job.acts[Len(job.acts)] = "push"
  /\ history # <<>>
  /\ history[Len(history)].what = "summary"

C29_SharedCycleId ==
  \A i \in DOMAIN history :
    /\ history[i].review # "none"
    /\ \A k \in DOMAIN history : history[k].review = history[i].review

\* C30: a pass whose JSON extraction fails counts as a pass without
\* comments, without thread verdicts and without an architecture update
\* request, and the run goes on: it merges what the other pass returned and,
\* unless a call throws, ends with the label of its verdict set.
C30_DegradedParse ==
  (~input.arch.json \/ ~input.detail.json) =>
    LET from(seq, raws) == \A k \in DOMAIN seq : seq[k] \in UNION
                             {Range(raws[m]) : m \in DOMAIN raws}
        arch == IF input.arch.json THEN <<input.arch>> ELSE <<>>
        detail == IF input.detail.json THEN <<input.detail>> ELSE <<>>
        both == arch \o detail
        comments == [m \in DOMAIN both |-> both[m].comments]
        verdicts == [m \in DOMAIN both |-> both[m].thread_responses]
        open == \/ job.merged.comments # <<>>
                \/ \E k \in DOMAIN job.merged.thread_responses :
                     ~job.merged.thread_responses[k].resolved
    IN
    /\ from(job.merged.comments, comments)
    /\ from(job.merged.thread_responses, verdicts)
    /\ ~input.arch.json => ~job.needed
    /\ (job.reviewId # "none" /\ job.ctx = "main"
          /\ job.pc \notin {"arch", "detail", "catch"}) =>
         /\ \A k \in DOMAIN both :
              /\ Range(both[k].comments) \subseteq Range(job.merged.comments)
              /\ \A m \in DOMAIN both[k].thread_responses :
                   \E n \in DOMAIN job.merged.thread_responses :
                     job.merged.thread_responses[n].thread_id
                       = both[k].thread_responses[m].thread_id
         /\ job.pc = "resolved" =>
              /\ labels[1] = {IF open THEN CN ELSE HRN}
              /\ ~open => history[Len(history)]
                            = Posted("createComment", "approve", "none", "r1")

\* both extractions failed and the run ended with the approval comment and
\* human-review-needed
C30_Witness ==
  /\ ~input.arch.json
  /\ ~input.detail.json
  /\ job.pc = "resolved"
  /\ job.ctx = "main"
  /\ labels[1] = {HRN}
  /\ history = <<Posted("createComment", "approve", "none", "r1")>>

\* C28: when the process stops during a label transition of a PR that
\* carried a bot label, the PR still carries a bot label afterwards: one
\* under which the poller dispatches it again, or a terminal one.
C28_ExitKeepsLabel ==
  [][(alive /\ ~alive') =>
       \A p \in PRs :
         (\/ labels[p] # {}
          \/ \E r \in RunIds : /\ runs[r].pr = p
                               /\ runs[r].pc \in {"rm", "add"}
                               /\ runs[r].out # {})
           => labels'[p] \cap BotLabels # {}
    ]_vars

\* C31: once the timer of an invocation has fired (the timeout elapsed before
\* the process was seen to close), the invocation does not resolve: the
\* promise, when settled, is rejected and the pipeline is in its catch
C31_TimeoutRejects ==
  (job.timer = "fired" /\ job.promise # "pending")
    => job.promise = "rejected"

\* C31, the parts that hold: the promise resolves only with exit code 0, and
\* a rejected invocation never lets the pipeline go on
C31_ResolvesOnExitZero ==
  /\ job.promise = "resolved" => job.code = "0"
  /\ job.pc = "continued" => job.promise = "resolved"
  /\ job.pc = "catch" => job.promise = "rejected"

\* C32: runs in flight have checkout directories of their own, and the
\* checkout directory of a run in flight is in the work directory: no prune
\* has removed it
C32_CheckoutsSafe ==
  /\ \A v, w \in Workers :
       (v # w /\ job.run[v].pc = "working" /\ job.run[w].pc = "working")
         => job.run[v].dir # job.run[w].dir
  /\ \A w \in Workers :
       job.run[w].pc = "working"
         => \E d \in job.dirs : d.name = job.run[w].dir

\* C32, the part that holds: the directories of runs in flight are distinct
C32_OwnDirectory ==
  \A v, w \in Workers :
    (v # w /\ job.run[v].pc = "working" /\ job.run[w].pc = "working")
      => job.run[v].dir # job.run[w].dir

\* the two passes of the run gave no new comment and no unresolved verdict
Clean ==
  Found(mergeResults(parseArchitectureResult(input.arch),
                     parseDetailedResult(input.detail))) = {}

\* a call of the run failed, the build/test gate failed or no platform was
\* detected
Diverted ==
  \/ job.pc = "catch"
  \/ job.ctx = "catch"
  \/ job.branch \in {"buildfail", "noplatform"}

ApprovalPosted ==
  \E k \in DOMAIN history :
    history[k].api = "createComment" /\ history[k].what = "approve"

\* C33: under fair polling a PR under bot-review-needed whose passes come
\* back clean, whose gate passes and whose calls all succeed, comes to carry
\* human-review-needed alone, and human-review-needed is never on the PR
\* without the approval comment having been posted before
C33_EventuallyApproved ==
  /\ Clean => <>(Diverted \/ (labels[1] = {HRN} /\ ApprovalPosted))
  /\ [](HRN \in labels[1] => ApprovalPosted)

C33_Witness ==
  /\ Clean
  /\ ~Diverted
  /\ labels[1] = {HRN}
  /\ ApprovalPosted
  /\ job.pc = "idle"

C35_ExitWaits ==
  [][/\ (alive /\ ~alive') => processing = {}
     /\ ~alive => \A t \in TickIds : ticks'[t].pc = "idle"
    ]_vars

\* C35, the part that holds: after the signal no tick is started
C35_NoNewTicks ==
  ~alive => \A t \in TickIds : ticks[t].pc = "idle"

\* C36: whenever the poller starts a handler on a PR, the PR carries at that
\* moment the label under which pollOnce starts that handler
C36_DispatchUnderLabel ==
  [][\A r \in RunIds :
       (runs[r].pc = "idle" /\ runs'[r].pc = "start")
         => HandledLabel(runs'[r].kind) \in labels[runs'[r].pr]
    ]_vars

\* C37: once a review run has set its outcome label (it is at the pruning
\* step, or the pruning has thrown), it posts no comment and enters no
\* setLabel call
C37_NothingAfterLabel ==
  [][(/\ job.pc \in {"prune", "catch"}
      /\ job.ctx = "main"
      /\ job.branch \in {"changes", "approve"}
      /\ labels[1] = {ReviewTarget(job.branch)})
       => /\ history' = history
          /\ runs' = runs
    ]_vars

\* C38: a step in which a poll fails writes the log line and nothing else:
\* the process stays alive, the registry and the runs in flight are as
\* before, and the poller is idle, so that the next timer callback starts a
\* tick; a run in flight is in the registry at all times
C38_FailedPollContained ==
  /\ [][Len(output') > Len(output) =>
          /\ output' = Append(output, "Poll cycle failed")
          /\ alive'
          /\ processing' = processing
          /\ runs' = runs
          /\ \A t \in TickIds : ticks'[t].pc = "idle"
       ]_vars
  /\ [](alive /\ \A r \in RunIds : Outstanding(r) => runs[r].pr \in processing)

\* a poll has failed after it had dispatched a run; the run is in flight and
\* registered while a later tick is listing
C38_Witness ==
  /\ output # <<>>
  /\ alive
  /\ \E r \in RunIds : Outstanding(r) /\ runs[r].pr \in processing
  /\ \E t \in TickIds : ticks[t].pc = "list" /\ ticks[t].phase = 1

====
